---- MODULE Spec2Model ----
(***************************************************************************)
(* A model of tgv's data-to-glyph pipeline.                                *)
(*                                                                         *)
(*   Spec        the modification decoder, parse_modification_data         *)
(*               (crates/gv-core/src/modification.rs), run on one input    *)
(*               one loop iteration at a time.                             *)
(*   RenderSpec  the view driver and compositor, render_alignment          *)
(*               (crates/tgv/src/rendering/alignment.rs), one compositor   *)
(*               invocation at a time.                                     *)
(*   CommandSpec the command parser, parse                                 *)
(*               (crates/gv-core/src/command.rs), run on one input.        *)
(*   ExportSpec  the HTML export of a buffer, buffer_to_html               *)
(*               (crates/tgv/src/rendering/export.rs), one cell at a time. *)
(*   ColorSpec   indexed_to_rgb (export.rs), run on one index.             *)
(*                                                                         *)
(* Text is a sequence of one-character strings; byte values are naturals.  *)
(***************************************************************************)
EXTENDS Integers, Sequences, FiniteSets, TLC

VARIABLES
    \* ---- parse_modification_data: arguments and build profile
    mm_str, ml_bytes, seq, cigar_ops, alignment_start, overflow_checks,
    \* ---- parse_modification_data: locals
    pc, q_to_r, base_positions, ml_cursor, sec_i,
    mod_type, positions, deltas, tok_i, pos_cursor,
    result, calls, ret,
    \* ---- render_alignment: state.alignment_options, state.alignment.*, the
    \* area, the view and the caller's buffer
    alignment_options, read_pairs, show_pairs, ys, ys_index, reads,
    area, alignment_view, buf,
    \* ---- render_alignment: position in the pass, compositor invocations
    \* still to make and made so far, and the value returned
    rpc, queue, invocations, rret,
    \* ---- parse: the command line typed and the value returned
    input, parsed,
    \* ---- buffer_to_html: the buffer exported, the loop counters y and x, the
    \* body built so far and the position in the function
    snapshot, ey, ex, body, epc,
    \* ---- indexed_to_rgb: the index and the value returned
    idx, rgb

decoderVars == << mm_str, ml_bytes, seq, cigar_ops, alignment_start, overflow_checks,
                  pc, q_to_r, base_positions, ml_cursor, sec_i,
                  mod_type, positions, deltas, tok_i, pos_cursor,
                  result, calls, ret >>

rendererVars == << alignment_options, read_pairs, show_pairs, ys, ys_index, reads,
                   area, alignment_view, buf, rpc, queue, invocations, rret >>

commandVars == << input, parsed >>

exportVars == << snapshot, ey, ex, body, epc >>

colorVars == << idx, rgb >>

\* The variables of the parts around the pipeline.
peripheralVars == << commandVars, exportVars, colorVars >>

vars == << decoderVars, rendererVars, peripheralVars >>

(***************************************************************************)
(* Bounds of the model.                                                    *)
(***************************************************************************)
\* usize is modelled UsizeBits wide (64 in the program): wide enough for every
\* offset of the modelled reads, narrow enough that a delta can reach usize::MAX.
UsizeBits == 4
\* Sections per generated tag text, and CIGAR operations per generated CIGAR.
MaxSections == 2
MaxOps == 3
\* The alignment area of the terminal, in cells.
AreaWidth == 6
AreaHeight == 2

RECURSIVE Pow2(_)
Pow2(n) == IF n = 0 THEN 1 ELSE 2 * Pow2(n - 1)

UsizeModulus == Pow2(UsizeBits)
UsizeMax == UsizeModulus - 1

(***************************************************************************)
(* Text primitives of the standard library used by the decoder.            *)
(***************************************************************************)
EmptyMap == << >>

IsWhitespace(c) == c \in {" ", "\t"}

\* str::trim_end_matches(c)
RECURSIVE TrimEndMatches(_, _)
TrimEndMatches(s, c) ==
    IF Len(s) > 0 /\ s[Len(s)] = c
    THEN TrimEndMatches(SubSeq(s, 1, Len(s) - 1), c)
    ELSE s

RECURSIVE TrimStart(_)
TrimStart(s) ==
    IF Len(s) > 0 /\ IsWhitespace(s[1]) THEN TrimStart(Tail(s)) ELSE s

RECURSIVE TrimEnd(_)
TrimEnd(s) ==
    IF Len(s) > 0 /\ IsWhitespace(s[Len(s)])
    THEN TrimEnd(SubSeq(s, 1, Len(s) - 1))
    ELSE s

\* str::trim
Trim(s) == TrimEnd(TrimStart(s))

\* str::find(c): the 1-based index of the first c, 0 when there is none.
RECURSIVE FindFrom(_, _, _)
FindFrom(s, c, i) ==
    IF i > Len(s) THEN 0
    ELSE IF s[i] = c THEN i
    ELSE FindFrom(s, c, i + 1)

Find(s, c) == FindFrom(s, c, 1)

\* str::split(c): always at least one piece; "" splits into one empty piece.
RECURSIVE Split(_, _)
Split(s, c) ==
    LET p == Find(s, c) IN
    IF p = 0 THEN << s >>
    ELSE << SubSeq(s, 1, p - 1) >> \o Split(SubSeq(s, p + 1, Len(s)), c)

\* u8::to_ascii_uppercase on the letters the model uses.
ToAsciiUppercase(c) ==
    CASE c = "a" -> "A"
      [] c = "c" -> "C"
      [] c = "g" -> "G"
      [] c = "t" -> "T"
      [] OTHER -> c

Digits == << "0", "1", "2", "3", "4", "5", "6", "7", "8", "9" >>

IsDigit(c) == \E d \in 1..10 : Digits[d] = c

DigitValue(c) == (CHOOSE d \in 1..10 : Digits[d] = c) - 1

ParseErr == -1

\* The digit loop of usize::from_str: every step is a checked multiply-add,
\* so a value above usize::MAX is an error (PosOverflow), like a non-digit.
RECURSIVE ParseDigits(_, _)
ParseDigits(s, acc) ==
    IF Len(s) = 0 THEN acc
    ELSE IF ~IsDigit(s[1]) THEN ParseErr
    ELSE IF acc * 10 + DigitValue(s[1]) > UsizeMax THEN ParseErr
    ELSE ParseDigits(Tail(s), acc * 10 + DigitValue(s[1]))

\* str::parse::<usize>: an optional leading '+', then one or more digits.
ParseUsize(s) ==
    LET digits == IF Len(s) > 0 /\ s[1] = "+" THEN Tail(s) ELSE s IN
    IF Len(digits) = 0 THEN ParseErr ELSE ParseDigits(digits, 0)

\* The decimal text of n (what a tag writer emits for a delta).
RECURSIVE ToDecimal(_)
ToDecimal(n) ==
    IF n < 10 THEN << Digits[n + 1] >>
    ELSE ToDecimal(n \div 10) \o << Digits[(n % 10) + 1] >>

(***************************************************************************)
(* Maps (HashMap) as functions.                                            *)
(***************************************************************************)
MapInsert(m, k, v) == (k :> v) @@ m

\* map.entry(k).or_default().push(v)
MapPush(m, k, v) ==
    IF k \in DOMAIN m THEN [m EXCEPT ![k] = Append(@, v)]
    ELSE (k :> << v >>) @@ m

(***************************************************************************)
(* Step 1: the query-offset -> reference-position map from the CIGAR.      *)
(***************************************************************************)
Kinds == { "Match", "Insertion", "Deletion", "Skip", "SoftClip", "HardClip",
           "Pad", "SequenceMatch", "SequenceMismatch" }

Op(kind, len) == [kind |-> kind, len |-> len]

\* for i in 0..len { q_to_r.insert(q_cursor + i, r_cursor + i) }
RECURSIVE InsertRun(_, _, _, _)
InsertRun(m, q, r, len) ==
    IF len = 0 THEN m
    ELSE InsertRun(MapInsert(m, q, r), q + 1, r + 1, len - 1)

\* One iteration of `for op in cigar_ops`, a bug variant: an insertion also
\* advances the reference cursor.
CigarOpInsertionMovesRef(st, op) ==
    CASE op.kind \in {"SoftClip"} ->
            [st EXCEPT !.q_cursor = @ + op.len]
      [] op.kind \in {"Insertion"} ->
            [st EXCEPT !.q_cursor = @ + op.len, !.r_cursor = @ + op.len]
      [] op.kind \in {"HardClip", "Pad"} -> st
      [] op.kind \in {"Deletion", "Skip"} ->
            [st EXCEPT !.r_cursor = @ + op.len]
      [] op.kind \in {"Match", "SequenceMatch", "SequenceMismatch"} ->
            [ q_cursor |-> st.q_cursor + op.len,
              r_cursor |-> st.r_cursor + op.len,
              q_to_r   |-> InsertRun(st.q_to_r, st.q_cursor, st.r_cursor, op.len) ]

\* One iteration of `for op in cigar_ops`.
CigarOp(st, op) ==
    CASE op.kind \in {"SoftClip", "Insertion"} ->
            [st EXCEPT !.q_cursor = @ + op.len]
      [] op.kind \in {"HardClip", "Pad"} -> st
      [] op.kind \in {"Deletion", "Skip"} ->
            [st EXCEPT !.r_cursor = @ + op.len]
      [] op.kind \in {"Match", "SequenceMatch", "SequenceMismatch"} ->
            [ q_cursor |-> st.q_cursor + op.len,
              r_cursor |-> st.r_cursor + op.len,
              q_to_r   |-> InsertRun(st.q_to_r, st.q_cursor, st.r_cursor, op.len) ]

RECURSIVE WalkCigar(_, _)
WalkCigar(ops, st) ==
    IF Len(ops) = 0 THEN st ELSE WalkCigar(Tail(ops), CigarOp(st, Head(ops)))

BuildQToR(ops, start) ==
    WalkCigar(ops, [q_cursor |-> 0, r_cursor |-> start, q_to_r |-> EmptyMap]).q_to_r

(***************************************************************************)
(* Step 2: query offsets (0-based) of every base letter, left to right.    *)
(***************************************************************************)
RECURSIVE IndexBases(_, _, _)
IndexBases(s, i, m) ==
    IF i >= Len(s) THEN m
    ELSE IndexBases(s, i + 1, MapPush(m, ToAsciiUppercase(s[i + 1]), i))

BuildBasePositions(s) == IndexBases(s, 0, EmptyMap)

(***************************************************************************)
(* Step 3: sections of the MM tag.                                         *)
(***************************************************************************)
SectionList(mm) == Split(TrimEndMatches(mm, ";"), ";")

\* (header, deltas_str): the section split at its first comma.
HeaderOf(section) ==
    LET p == Find(section, ",") IN
    IF p = 0 THEN section ELSE SubSeq(section, 1, p - 1)

DeltasStrOf(section) ==
    LET p == Find(section, ",") IN
    IF p = 0 THEN << >> ELSE SubSeq(section, p + 1, Len(section))

\* Bug variant of SkippedAdvance: a skipped section leaves the cursor alone.
SkippedAdvanceNone(deltas_str) == 0

\* let n = if deltas_str.is_empty() { 0 } else { deltas_str.split(',').count() }
SkippedAdvance(deltas_str) ==
    IF Len(deltas_str) = 0 THEN 0 ELSE Len(Split(deltas_str, ","))

NoMod == "None"

ModTypeOf(mod_code) ==
    CASE mod_code = "m" -> "FiveMC"
      [] mod_code = "h" -> "FiveHMC"
      [] mod_code = "a" -> "SixMA"
      [] OTHER -> NoMod

\* Bug variant of StrandDecodable: the strand is not looked at.
StrandDecodableAny(strand) == TRUE

\* Only handle forward-strand modifications (+).
StrandDecodable(strand) == strand = "+"

\* What the body of `for section in ...` does before its delta loop:
\* either `continue` (enter = FALSE), having advanced ml_cursor by `advance`,
\* or the start of the delta loop over `deltas` with the base's `positions`.
SectionPrologue(raw, bp) ==
    LET section    == Trim(raw)
        header     == HeaderOf(section)
        deltas_str == DeltasStrOf(section)
        skip(n)    == [enter |-> FALSE, advance |-> n, mod_type |-> NoMod,
                       positions |-> << >>, deltas |-> << >>]
    IN  IF Len(section) = 0 THEN skip(0)
        ELSE IF Len(header) < 3 THEN skip(0)
        ELSE IF ~StrandDecodable(header[2]) THEN skip(SkippedAdvance(deltas_str))
        ELSE IF ModTypeOf(header[3]) = NoMod THEN skip(SkippedAdvance(deltas_str))
        ELSE IF ToAsciiUppercase(header[1]) \notin DOMAIN bp THEN skip(0)
        ELSE IF Len(deltas_str) = 0 THEN skip(0)
        ELSE [enter |-> TRUE, advance |-> 0, mod_type |-> ModTypeOf(header[3]),
              positions |-> bp[ToAsciiUppercase(header[1])],
              deltas |-> Split(deltas_str, ",")]

(***************************************************************************)
(* Step 4: one delta token.                                                *)
(***************************************************************************)
\* Bug variant of ProbabilityAt: the byte after the cursor is read.
ProbabilityAtNext(bytes, cursor) ==
    IF cursor + 1 < Len(bytes) THEN bytes[cursor + 2] ELSE 255

\* ml_bytes.get(ml_cursor).copied().unwrap_or(255)
ProbabilityAt(bytes, cursor) ==
    IF cursor < Len(bytes) THEN bytes[cursor + 1] ELSE 255

\* Bug variant of AdvanceAfterHit: the cursor stays on the hit occurrence.
AdvanceAfterHitStay(cursor) == cursor

\* pos_cursor += 1 after a hit
AdvanceAfterHit(cursor) == cursor + 1

BaseModification(t, p) == [modification_type |-> t, probability |-> p]

\* Bug variant of Annotate: a call on an offset without a reference position
\* is filed under the alignment start.
AnnotateUnaligned(res, map, query_pos, start, bm) ==
    IF query_pos \in DOMAIN map THEN MapPush(res, map[query_pos], bm)
    ELSE MapPush(res, start, bm)

\* if let Some(&ref_pos) = q_to_r.get(&query_pos) { result.entry(ref_pos)...push }
Annotate(res, map, query_pos, start, bm) ==
    IF query_pos \in DOMAIN map THEN MapPush(res, map[query_pos], bm)
    ELSE res

(***************************************************************************)
(* Inputs the decoder is run on.                                           *)
(***************************************************************************)
\* Delta tokens at and just above usize::MAX.
MaxToken    == ToDecimal(UsizeMax)
TooBigToken == ToDecimal(UsizeMax + 1)

SectionMenu ==
    { << "C", "+", "m", "?", ",", "0", ",", "1" >>,
      << "C", "+", "h", ",", "9", ",", "0" >>,
      << "A", "+", "a", ",", "0" >>,
      << "C", "-", "m", "?", ",", "0" >>,
      << "C", "+", "z", "?", ",", "0" >>,
      << "T", "+", "m", ",", "0" >>,
      << "C", "+", "m", ",", "0", ",", "x", ",", "0" >>,
      << "C", "+", "m", ",", "1", "," >> \o MaxToken,
      << "C", "+", ",", "0" >> }

RECURSIVE Join(_)
Join(sections) ==
    IF Len(sections) = 0 THEN << >>
    ELSE IF Len(sections) = 1 THEN sections[1]
    ELSE sections[1] \o << ";" >> \o Join(Tail(sections))

GeneratedTags ==
    { Join(t) : t \in UNION { [1..n -> SectionMenu] : n \in 0..MaxSections } }

\* Tag texts of the unit tests and of shapes the generated ones do not reach.
ScenarioATag == << "C", "+", "m", "?", ",", "0", ",", "1" >>
ScenarioBTag == << "C", "+", "m", "?", ",", "0" >>
ScenarioCTag == << "C", "-", "m", "?", ",", "0" >>

NamedTags ==
    { ScenarioBTag,
      << "C", "+", "h", "?", ",", "1" >>,
      << "C", "+", "m", "?", ",", "0", ",", "0" >>,
      << "C", "+", "m", "?", ",", "0", ",", "1", ";" >>,
      << "A", "-", "h", ",", "1", ",", "0", ";", "C", "-", "m", "?", ",", "0" >>,
      << " ", "c", "+", "m", " ", ",", " ", "0", " ", ",", "+", "1" >>,
      << "C", "+", "m", "?", "," >> \o TooBigToken \o << ",", "0", ";", "C", "+", "h", ",", "0" >>,
      << "C", "+", "m", "," >> \o MaxToken \o << ",", "1" >>,
      << "T", "+", "m", ",", "0", ";", "C", "+", "z", "?", ",", "0", ";", "C", "+", "m", "?", ",", "0", ",", "1" >>,
      << "C", "+", "z", "?", ",", "0", ";", "C", "-", "m", "?", ",", "0", ";", "C", "+", "m", "?", ",", "0", ",", "1" >>,
      << "C", "+", "z", "?", ",", "0", ",", "0", ";", ";", "C", "+", "h", ",", "1" >> }

TagTexts == GeneratedTags \cup NamedTags

ScenarioARead ==
    [ seq |-> << "A", "C", "G", "C", "A", "C", "G", "C" >>,
      cigar_ops |-> << Op("Match", 8) >>, alignment_start |-> 1 ]

ScenarioBRead ==
    [ seq |-> << "G", "G", "A", "C", "G", "C", "A", "C", "G", "C" >>,
      cigar_ops |-> << Op("SoftClip", 2), Op("Match", 8) >>, alignment_start |-> 1 ]

DeletionRead ==
    [ seq |-> << "A", "C", "G", "C", "A", "C" >>,
      cigar_ops |-> << Op("Match", 3), Op("Deletion", 2), Op("Match", 3) >>,
      alignment_start |-> 1 ]

\* A soft-clipped C, an inserted C and an aligned lowercase c.
ClippedRead ==
    [ seq |-> << "C", "A", "C", "c" >>,
      cigar_ops |-> << Op("SoftClip", 1), Op("Match", 1), Op("Insertion", 1),
                       Op("Match", 1) >>,
      alignment_start |-> 5 ]

ReadMenu == { ScenarioARead, ScenarioBRead, DeletionRead, ClippedRead }

MlMenu == { << 200, 50 >>, << 255 >> }

OpMenu ==
    { Op(k, 1) : k \in Kinds } \cup { Op(k, 2) : k \in {"Match", "Insertion", "Deletion"} }

CigarLists == UNION { [1..n -> OpMenu] : n \in 0..MaxOps }

\* The named tags on every read, the generated tags on a fully aligned and on
\* a clipped read, and the tests' tags on any CIGAR.
Inputs ==
    { [ mm_str |-> t, ml_bytes |-> ml, seq |-> r.seq, cigar_ops |-> r.cigar_ops,
        alignment_start |-> r.alignment_start, overflow_checks |-> oc ] :
          t \in NamedTags, ml \in MlMenu, r \in ReadMenu, oc \in BOOLEAN }
    \cup
    { [ mm_str |-> t, ml_bytes |-> ml, seq |-> r.seq, cigar_ops |-> r.cigar_ops,
        alignment_start |-> r.alignment_start, overflow_checks |-> oc ] :
          t \in GeneratedTags, ml \in MlMenu, r \in { ScenarioARead, ClippedRead },
          oc \in BOOLEAN }
    \cup
    { [ mm_str |-> ScenarioBTag, ml_bytes |-> << 255 >>, seq |-> ScenarioARead.seq,
        cigar_ops |-> c, alignment_start |-> 5, overflow_checks |-> TRUE ] :
          c \in CigarLists }

(***************************************************************************)
(* parse_modification_data as a state machine.                             *)
(***************************************************************************)
DecoderInit ==
    /\ \E inp \in Inputs :
          /\ mm_str = inp.mm_str
          /\ ml_bytes = inp.ml_bytes
          /\ seq = inp.seq
          /\ cigar_ops = inp.cigar_ops
          /\ alignment_start = inp.alignment_start
          \* overflow-checks of the build profile: on in debug, off in release.
          /\ overflow_checks = inp.overflow_checks
    /\ pc = "start"
    /\ q_to_r = EmptyMap
    /\ base_positions = EmptyMap
    /\ ml_cursor = 0
    /\ sec_i = 0
    /\ mod_type = NoMod
    /\ positions = << >>
    /\ deltas = << >>
    /\ tok_i = 0
    /\ pos_cursor = 0
    /\ result = EmptyMap
    /\ calls = << >>
    /\ ret = "running"

inputVars == << mm_str, ml_bytes, seq, cigar_ops, alignment_start, overflow_checks >>
loopVars == << mod_type, positions, deltas, tok_i, pos_cursor >>

\* Lines 56-96: the two lookup tables and the cursor, before the section loop.
BuildMaps ==
    /\ pc = "start"
    /\ q_to_r' = BuildQToR(cigar_ops, alignment_start)
    /\ base_positions' = BuildBasePositions(seq)
    /\ pc' = "section"
    /\ UNCHANGED << inputVars, ml_cursor, sec_i, loopVars, result, calls, ret,
                    rendererVars, peripheralVars >>

\* One iteration of `for section in ...` up to its delta loop.
ParseSection ==
    /\ pc = "section"
    /\ sec_i < Len(SectionList(mm_str))
    /\ LET p == SectionPrologue(SectionList(mm_str)[sec_i + 1], base_positions) IN
         IF p.enter
         THEN /\ pc' = "delta"
              /\ mod_type' = p.mod_type
              /\ positions' = p.positions
              /\ deltas' = p.deltas
              /\ tok_i' = 0
              /\ pos_cursor' = 0
              /\ UNCHANGED << ml_cursor, sec_i >>
         ELSE /\ ml_cursor' = ml_cursor + p.advance
              /\ sec_i' = sec_i + 1
              /\ UNCHANGED << pc, loopVars >>
    /\ UNCHANGED << inputVars, q_to_r, base_positions, result, calls, ret,
                    rendererVars, peripheralVars >>

\* After the last token of a delta loop the section loop goes on.
AfterToken(i) ==
    IF i = Len(deltas)
    THEN pc' = "section" /\ sec_i' = sec_i + 1
    ELSE UNCHANGED << pc, sec_i >>

\* One iteration of `for delta_str in deltas_str.split(',')`.
DeltaToken ==
    /\ pc = "delta"
    /\ LET delta == ParseUsize(Trim(deltas[tok_i + 1]))
           sum   == pos_cursor + delta
           at    == IF sum > UsizeMax THEN sum % UsizeModulus ELSE sum
       IN
       IF delta = ParseErr
       THEN \* Err(_) => break
            /\ pc' = "section"
            /\ sec_i' = sec_i + 1
            /\ UNCHANGED << tok_i, pos_cursor, ml_cursor, result, calls, ret >>
       ELSE IF sum > UsizeMax /\ overflow_checks
       THEN \* pos_cursor += delta: "attempt to add with overflow"
            /\ pc' = "panic"
            /\ ret' = "panic"
            /\ UNCHANGED << sec_i, tok_i, pos_cursor, ml_cursor, result, calls >>
       ELSE IF at >= Len(positions)
       THEN /\ pos_cursor' = at
            /\ ml_cursor' = ml_cursor + 1
            /\ tok_i' = tok_i + 1
            /\ AfterToken(tok_i + 1)
            /\ UNCHANGED << result, calls, ret >>
       ELSE LET query_pos   == positions[at + 1]
                probability == ProbabilityAt(ml_bytes, ml_cursor)
            IN
            /\ pos_cursor' = AdvanceAfterHit(at)
            /\ ml_cursor' = ml_cursor + 1
            /\ result' = Annotate(result, q_to_r, query_pos, alignment_start,
                                  BaseModification(mod_type, probability))
            /\ calls' = Append(calls,
                               [ section |-> sec_i + 1, token |-> tok_i + 1,
                                 index |-> at, query_pos |-> query_pos,
                                 ml_index |-> ml_cursor, probability |-> probability ])
            /\ tok_i' = tok_i + 1
            /\ AfterToken(tok_i + 1)
            /\ UNCHANGED ret
    /\ UNCHANGED << inputVars, q_to_r, base_positions, mod_type, positions, deltas,
                    rendererVars, peripheralVars >>

\* Ok(result)
Return ==
    /\ pc = "section"
    /\ sec_i = Len(SectionList(mm_str))
    /\ pc' = "done"
    /\ ret' = "Ok"
    /\ UNCHANGED << inputVars, q_to_r, base_positions, ml_cursor, sec_i, loopVars,
                    result, calls, rendererVars, peripheralVars >>

DecoderNext == BuildMaps \/ ParseSection \/ DeltaToken \/ Return

\* The decoder while the renderer is the subject.
DecoderIdle ==
    /\ mm_str = << >>
    /\ ml_bytes = << >>
    /\ seq = << >>
    /\ cigar_ops = << >>
    /\ alignment_start = 1
    /\ overflow_checks = TRUE
    /\ pc = "idle"
    /\ q_to_r = EmptyMap
    /\ base_positions = EmptyMap
    /\ ml_cursor = 0
    /\ sec_i = 0
    /\ mod_type = NoMod
    /\ positions = << >>
    /\ deltas = << >>
    /\ tok_i = 0
    /\ pos_cursor = 0
    /\ result = EmptyMap
    /\ calls = << >>
    /\ ret = "running"

(***************************************************************************)
(* Rendering: values.                                                      *)
(***************************************************************************)
ViewAsPairs == "ViewAsPairs"
ShowBaseModifications == "ShowBaseModifications"

\* Option<&HashMap<u64, Vec<BaseModification>>>
NoMods == [some |-> FALSE, map |-> EmptyMap]
SomeMods(m) == [some |-> TRUE, map |-> m]

\* RenderingContextModifier
Forward == [m |-> "Forward", pos |-> 0, base |-> 0]
Reverse == [m |-> "Reverse", pos |-> 0, base |-> 0]
Insertion(l) == [m |-> "Insertion", pos |-> l, base |-> 0]
Mismatch(coordinate, base) == [m |-> "Mismatch", pos |-> coordinate, base |-> base]
PairConflict(coordinate) == [m |-> "PairConflict", pos |-> coordinate, base |-> 0]

\* RenderingContext; base is the byte of a SoftClip.
Context(kind, base, start, end, modifiers) ==
    [kind |-> kind, base |-> base, start |-> start, end |-> end, modifiers |-> modifiers]

\* Color: palette entries are told apart by name and by what they are keyed on.
Color(name, of, n) == [name |-> name, of |-> of, n |-> n]
NoColor == Color("None", "", 0)
ResetColor == Color("Reset", "", 0)

\* Palette
MATCH_COLOR == Color("MATCH_COLOR", "", 0)
MATCH_FG_COLOR == Color("MATCH_FG_COLOR", "", 0)
DELETION_COLOR == Color("DELETION_COLOR", "", 0)
PAIRGAP_COLOR == Color("PAIRGAP_COLOR", "", 0)
PAIR_OVERLAP_COLOR == Color("PAIR_OVERLAP_COLOR", "", 0)
INSERTION_COLOR == Color("INSERTION_COLOR", "", 0)
background == Color("background", "", 0)
softclip_color(base) == Color("softclip", "", base)
mismatch_color(base) == Color("mismatch", "", base)
modification_color(modification_type, probability) ==
    Color("modification", modification_type, probability)

\* ratatui Style: an unset component (None) leaves the cell's component alone.
Style(fg, bg) == [fg |-> fg, bg |-> bg]
StyleDefault == Style(NoColor, NoColor)
WithFg(style, c) == [style EXCEPT !.fg = c]
WithBg(style, c) == [style EXCEPT !.bg = c]

\* String::from_utf8(vec![base]): one byte is valid UTF-8 iff it is ASCII.
AsciiLimit == 128

\* Bug variant of IsUtf8: every byte is taken for a character.
IsUtf8Any(base) == TRUE

IsUtf8(base) == base < AsciiLimit

ByteGlyph(base) ==
    CASE base = 65 -> "A"
      [] base = 67 -> "C"
      [] base = 71 -> "G"
      [] base = 84 -> "T"
      [] OTHER -> "N"

\* Glyphs: "-" aligned/deleted/gap run, ">" and "<" the strand arrows,
\* "|" the insertion bar, "?" the pair conflict.
Repeat(g, n) == [i \in 1..n |-> g]

OnScreenRenderingContext(x, y, string, style) ==
    [x |-> x, y |-> y, string |-> string, style |-> style]

(***************************************************************************)
(* The view transform (crate::layout).                                     *)
(***************************************************************************)
\* OnScreenCoordinate: Left(n), OnScreen(n) or Right(n)
Coordinate(t, n) == [t |-> t, n |-> n]

\* The screen column of reference coordinate x: the view shows the
\* coordinates left .. left + width - 1, one per cell.
onscreen_x_coordinate(view, x, a) ==
    IF x < view.left THEN Coordinate("Left", view.left - x)
    ELSE IF x - view.left >= a.width THEN Coordinate("Right", x - view.left - a.width)
    ELSE Coordinate("OnScreen", x - view.left)

\* The screen line of row y: the view shows the rows top .. top + height - 1.
onscreen_y_coordinate(view, y, a) ==
    IF y < view.top THEN Coordinate("Left", view.top - y)
    ELSE IF y - view.top >= a.height THEN Coordinate("Right", y - view.top - a.height)
    ELSE Coordinate("OnScreen", y - view.top)

NoSpan == [some |-> FALSE, x |-> 0, length |-> 0]
Span(x, length) == [some |-> TRUE, x |-> x, length |-> length]

\* The on-screen part of the span from `left` to `right`, None when it has no cell.
onscreen_start_and_length(left, right, a) ==
    CASE left.t = "Right" -> NoSpan
      [] right.t = "Left" -> NoSpan
      [] left.t = "Left" /\ right.t = "OnScreen" -> Span(0, right.n + 1)
      [] left.t = "Left" /\ right.t = "Right" ->
            IF a.width = 0 THEN NoSpan ELSE Span(0, a.width)
      [] left.t = "OnScreen" /\ right.t = "OnScreen" ->
            IF left.n > right.n THEN NoSpan ELSE Span(left.n, right.n - left.n + 1)
      [] left.t = "OnScreen" /\ right.t = "Right" -> Span(left.n, a.width - left.n)

(***************************************************************************)
(* The compositor: get_read_rendering_info and render_contexts.            *)
(***************************************************************************)
\* iter().find(|m| m.modification_type == t): 0 when there is none.
RECURSIVE FindType(_, _, _)
FindType(mod_list, t, i) ==
    IF i > Len(mod_list) THEN 0
    ELSE IF mod_list[i].modification_type = t THEN i
    ELSE FindType(mod_list, t, i + 1)

\* Bug variant of PreferredCall: 5hmC is preferred over 5mC.
PreferredCallHmcFirst(mod_list) ==
    IF FindType(mod_list, "FiveHMC", 1) > 0 THEN FindType(mod_list, "FiveHMC", 1)
    ELSE IF FindType(mod_list, "FiveMC", 1) > 0 THEN FindType(mod_list, "FiveMC", 1)
    ELSE IF Len(mod_list) > 0 THEN 1
    ELSE 0

\* find(5mC).or_else(find(5hmC)).or_else(first): the index of the call, 0 for None.
PreferredCall(mod_list) ==
    IF FindType(mod_list, "FiveMC", 1) > 0 THEN FindType(mod_list, "FiveMC", 1)
    ELSE IF FindType(mod_list, "FiveHMC", 1) > 0 THEN FindType(mod_list, "FiveHMC", 1)
    ELSE IF Len(mod_list) > 0 THEN 1
    ELSE 0

\* The background of a reference position from the map; NoColor stands for None.
mod_bg_at(pos, mods) ==
    IF pos \notin DOMAIN mods THEN NoColor
    ELSE IF PreferredCall(mods[pos]) = 0 THEN NoColor
    ELSE modification_color(mods[pos][PreferredCall(mods[pos])].modification_type,
                            mods[pos][PreferredCall(mods[pos])].probability)

\* .unwrap_or(pallete.MATCH_COLOR)
UnwrapOr(c, default) == IF c = NoColor THEN default ELSE c

\* Bug variant of MatchCells: the modification map is not consulted.
RECURSIVE MatchCellsUncoloured(_, _, _, _, _, _)
MatchCellsUncoloured(pos, end, onscreen_y, view, a, mods) ==
    IF pos > end THEN << >>
    ELSE (IF onscreen_x_coordinate(view, pos, a).t = "OnScreen"
          THEN << OnScreenRenderingContext(
                     onscreen_x_coordinate(view, pos, a).n, onscreen_y, << "-" >>,
                     Style(MATCH_FG_COLOR, MATCH_COLOR)) >>
          ELSE << >>)
         \o MatchCellsUncoloured(pos + 1, end, onscreen_y, view, a, mods)

\* Bug variant of MatchCells: only positions that hold a call get a cell.
RECURSIVE MatchCellsModifiedOnly(_, _, _, _, _, _)
MatchCellsModifiedOnly(pos, end, onscreen_y, view, a, mods) ==
    IF pos > end THEN << >>
    ELSE (IF onscreen_x_coordinate(view, pos, a).t = "OnScreen" /\ pos \in DOMAIN mods
          THEN << OnScreenRenderingContext(
                     onscreen_x_coordinate(view, pos, a).n, onscreen_y, << "-" >>,
                     Style(MATCH_FG_COLOR, UnwrapOr(mod_bg_at(pos, mods), MATCH_COLOR))) >>
          ELSE << >>)
         \o MatchCellsModifiedOnly(pos + 1, end, onscreen_y, view, a, mods)

\* for pos in context.start..=context.end: one cell per on-screen position.
RECURSIVE MatchCells(_, _, _, _, _, _)
MatchCells(pos, end, onscreen_y, view, a, mods) ==
    IF pos > end THEN << >>
    ELSE (IF onscreen_x_coordinate(view, pos, a).t = "OnScreen"
          THEN << OnScreenRenderingContext(
                     onscreen_x_coordinate(view, pos, a).n, onscreen_y, << "-" >>,
                     Style(MATCH_FG_COLOR, UnwrapOr(mod_bg_at(pos, mods), MATCH_COLOR))) >>
          ELSE << >>)
         \o MatchCells(pos + 1, end, onscreen_y, view, a, mods)

Info(tag, output) == [tag |-> tag, output |-> output]

\* Bug variant of BaseGlyphs: a soft clip is drawn across its whole span.
BaseGlyphsClipRun(context, onscreen_y, span, view, a, base_modifications) ==
    CASE context.kind = "Match" ->
            IF base_modifications.some
            THEN Info("Some", MatchCells(context.start, context.end, onscreen_y, view, a,
                                         base_modifications.map))
            ELSE Info("Some", << OnScreenRenderingContext(
                                   span.x, onscreen_y, Repeat("-", span.length),
                                   Style(MATCH_FG_COLOR, MATCH_COLOR)) >>)
      [] context.kind = "Deletion" ->
            Info("Some", << OnScreenRenderingContext(
                               span.x, onscreen_y, Repeat("-", span.length),
                               Style(DELETION_COLOR, background)) >>)
      [] context.kind = "SoftClip" ->
            IF IsUtf8(context.base)
            THEN Info("Some", << OnScreenRenderingContext(
                                   span.x, onscreen_y,
                                   Repeat(ByteGlyph(context.base), span.length),
                                   Style(NoColor, softclip_color(context.base))) >>)
            ELSE Info("Err", << >>)
      [] context.kind = "PairGap" ->
            Info("Some", << OnScreenRenderingContext(
                               span.x, onscreen_y, Repeat("-", span.length),
                               Style(PAIRGAP_COLOR, background)) >>)
      [] context.kind = "PairOverlap" ->
            Info("Some", << OnScreenRenderingContext(
                               span.x, onscreen_y, Repeat("-", span.length),
                               Style(PAIR_OVERLAP_COLOR, background)) >>)

\* `match context.kind`: the base glyphs, or Err from String::from_utf8.
BaseGlyphs(context, onscreen_y, span, view, a, base_modifications) ==
    CASE context.kind = "Match" ->
            IF base_modifications.some
            THEN Info("Some", MatchCells(context.start, context.end, onscreen_y, view, a,
                                         base_modifications.map))
            ELSE Info("Some", << OnScreenRenderingContext(
                                   span.x, onscreen_y, Repeat("-", span.length),
                                   Style(MATCH_FG_COLOR, MATCH_COLOR)) >>)
      [] context.kind = "Deletion" ->
            Info("Some", << OnScreenRenderingContext(
                               span.x, onscreen_y, Repeat("-", span.length),
                               Style(DELETION_COLOR, background)) >>)
      [] context.kind = "SoftClip" ->
            IF IsUtf8(context.base)
            THEN Info("Some", << OnScreenRenderingContext(
                                   span.x, onscreen_y, << ByteGlyph(context.base) >>,
                                   Style(NoColor, softclip_color(context.base))) >>)
            ELSE Info("Err", << >>)
      [] context.kind = "PairGap" ->
            Info("Some", << OnScreenRenderingContext(
                               span.x, onscreen_y, Repeat("-", span.length),
                               Style(PAIRGAP_COLOR, background)) >>)
      [] context.kind = "PairOverlap" ->
            Info("Some", << OnScreenRenderingContext(
                               span.x, onscreen_y, Repeat("-", span.length),
                               Style(PAIR_OVERLAP_COLOR, background)) >>)

\* Bug variant of MismatchStyle: the base-run style is inherited even when a
\* modification map is present.
MismatchStyleInherited(modifier, output, base_modifications) ==
    WithFg(output[1].style, mismatch_color(modifier.base))

\* let base_style = if let Some(mods) = base_modifications {..} else {..}
MismatchStyle(modifier, output, base_modifications) ==
    IF base_modifications.some
    THEN Style(mismatch_color(modifier.base),
               UnwrapOr(mod_bg_at(modifier.pos, base_modifications.map), MATCH_COLOR))
    ELSE WithFg(output[1].style, mismatch_color(modifier.base))

\* One iteration of `for modifier in context.modifiers.iter()` on `output`:
\* the longer output, Err from String::from_utf8, or Panic from
\* output.first().unwrap() on an empty output.
ApplyModifier(modifier, output, context, onscreen_y, view, a, base_modifications) ==
    LET start_c == onscreen_x_coordinate(view, context.start, a)
        end_c   == onscreen_x_coordinate(view, context.end, a)
        at_c    == onscreen_x_coordinate(view, modifier.pos, a)
        inherit(c, glyph) ==
            IF c.t # "OnScreen" THEN Info("Some", output)
            ELSE IF Len(output) = 0 THEN Info("Panic", output)
            ELSE Info("Some", Append(output,
                    OnScreenRenderingContext(c.n, onscreen_y, << glyph >>, output[1].style)))
    IN
    CASE modifier.m = "Forward" -> inherit(end_c, ">")
      [] modifier.m = "Reverse" -> inherit(start_c, "<")
      [] modifier.m = "Insertion" ->
            IF start_c.t # "OnScreen" THEN Info("Some", output)
            ELSE Info("Some", Append(output,
                    OnScreenRenderingContext(start_c.n, onscreen_y, << "|" >>,
                                             Style(INSERTION_COLOR, NoColor))))
      [] modifier.m = "Mismatch" ->
            IF at_c.t # "OnScreen" THEN Info("Some", output)
            ELSE IF ~base_modifications.some /\ Len(output) = 0 THEN Info("Panic", output)
            ELSE IF ~IsUtf8(modifier.base) THEN Info("Err", output)
            ELSE Info("Some", Append(output,
                    OnScreenRenderingContext(
                       at_c.n, onscreen_y, << ByteGlyph(modifier.base) >>,
                       MismatchStyle(modifier, output, base_modifications))))
      [] modifier.m = "PairConflict" -> inherit(at_c, "?")

\* Bug variant of ApplyModifiers: the list is walked from its last modifier.
RECURSIVE ApplyModifiersLastFirst(_, _, _, _, _, _, _)
ApplyModifiersLastFirst(modifiers, output, context, onscreen_y, view, a, base_modifications) ==
    IF Len(modifiers) = 0 THEN Info("Some", output)
    ELSE LET r == ApplyModifier(modifiers[Len(modifiers)], output, context, onscreen_y,
                                view, a, base_modifications)
         IN  IF r.tag # "Some" THEN r
             ELSE ApplyModifiersLastFirst(SubSeq(modifiers, 1, Len(modifiers) - 1), r.output,
                                          context, onscreen_y, view, a, base_modifications)

RECURSIVE ApplyModifiers(_, _, _, _, _, _, _)
ApplyModifiers(modifiers, output, context, onscreen_y, view, a, base_modifications) ==
    IF Len(modifiers) = 0 THEN Info("Some", output)
    ELSE LET r == ApplyModifier(Head(modifiers), output, context, onscreen_y, view, a,
                                base_modifications)
         IN  IF r.tag # "Some" THEN r
             ELSE ApplyModifiers(Tail(modifiers), r.output, context, onscreen_y, view, a,
                                 base_modifications)

\* Bug variant of get_read_rendering_info: the row's screen line is used
\* without asking whether the row is on-screen.
get_read_rendering_info_any_row(context, y, view, a, base_modifications) ==
    LET y_c   == onscreen_y_coordinate(view, y, a)
        span  == onscreen_start_and_length(onscreen_x_coordinate(view, context.start, a),
                                           onscreen_x_coordinate(view, context.end, a), a)
        base  == BaseGlyphs(context, y_c.n, span, view, a, base_modifications)
    IN  IF ~span.some THEN Info("None", << >>)
        ELSE IF base.tag # "Some" THEN base
        ELSE ApplyModifiers(context.modifiers, base.output, context, y_c.n, view, a,
                            base_modifications)

\* Ok(None), Ok(Some(output)), Err(glyph error), or a panic.
get_read_rendering_info(context, y, view, a, base_modifications) ==
    LET y_c   == onscreen_y_coordinate(view, y, a)
        span  == onscreen_start_and_length(onscreen_x_coordinate(view, context.start, a),
                                           onscreen_x_coordinate(view, context.end, a), a)
        base  == BaseGlyphs(context, y_c.n, span, view, a, base_modifications)
    IN  IF y_c.t # "OnScreen" THEN Info("None", << >>)
        ELSE IF ~span.some THEN Info("None", << >>)
        ELSE IF base.tag # "Some" THEN base
        ELSE ApplyModifiers(context.modifiers, base.output, context, y_c.n, view, a,
                            base_modifications)

\* Cell: symbol and the two colours.
Cell(symbol, fg, bg) == [symbol |-> symbol, fg |-> fg, bg |-> bg]
BlankCell == Cell(" ", ResetColor, ResetColor)

\* The caller's buffer: the area and the margin above and left of it.
BufferCells(a) == (0..(a.x + a.width - 1)) \X (0..(a.y + AreaHeight - 1))
BlankBuffer(a) == [c \in BufferCells(a) |-> BlankCell]

\* Buffer::set_string: the glyphs of `string` from (x, y) rightwards, clipped at
\* the buffer's edge; each cell takes the glyph and the set parts of the style.
set_string(b, x, y, string, style) ==
    [c \in DOMAIN b |->
        IF c[2] = y /\ c[1] >= x /\ c[1] < x + Len(string)
        THEN Cell(string[c[1] - x + 1],
                  IF style.fg = NoColor THEN b[c].fg ELSE style.fg,
                  IF style.bg = NoColor THEN b[c].bg ELSE style.bg)
        ELSE b[c]]

\* Bug variant of WriteAll: every glyph goes to the first line of the area.
RECURSIVE WriteAllTopLine(_, _, _)
WriteAllTopLine(b, output, a) ==
    IF Len(output) = 0 THEN b
    ELSE WriteAllTopLine(set_string(b, a.x + Head(output).x, a.y,
                                    Head(output).string, Head(output).style),
                         Tail(output), a)

\* for onscreen_context in onscreen_contexts { buf.set_string(...) }
RECURSIVE WriteAll(_, _, _)
WriteAll(b, output, a) ==
    IF Len(output) = 0 THEN b
    ELSE WriteAll(set_string(b, a.x + Head(output).x, a.y + Head(output).y,
                             Head(output).string, Head(output).style),
                  Tail(output), a)

\* Bug variant of render_contexts: the glyphs computed before a glyph error
\* are written.
render_contexts_partial(context, y, b, view, a, base_modifications) ==
    LET info == get_read_rendering_info(context, y, view, a, base_modifications) IN
    [ tag |-> IF info.tag \in {"None", "Some"} THEN "Ok" ELSE info.tag,
      buf |-> IF info.tag \in {"Some", "Err"} THEN WriteAll(b, info.output, a) ELSE b ]

\* render_contexts: the outcome and the buffer after it.
render_contexts(context, y, b, view, a, base_modifications) ==
    LET info == get_read_rendering_info(context, y, view, a, base_modifications) IN
    [ tag |-> IF info.tag \in {"None", "Some"} THEN "Ok" ELSE info.tag,
      buf |-> IF info.tag = "Some" THEN WriteAll(b, info.output, a) ELSE b ]

(***************************************************************************)
(* The view driver: render_alignment.                                      *)
(***************************************************************************)
RECURSIVE Flatten(_)
Flatten(ss) == IF Len(ss) = 0 THEN << >> ELSE Head(ss) \o Flatten(Tail(ss))

Min(a, b) == IF a <= b THEN a ELSE b

\* Option<Vec<_>>
NoneList == [some |-> FALSE, list |-> << >>]
SomeList(l) == [some |-> TRUE, list |-> l]

display_as_pairs == ViewAsPairs \in alignment_options
show_modifications == ShowBaseModifications \in alignment_options

\* One compositor invocation: the arguments of render_contexts that vary.
Invocation(context, y, mods, read) ==
    [context |-> context, y |-> y, mods |-> mods, read |-> read]

\* Bug variant of IndividualMods: an empty map is passed too.
IndividualModsEvenEmpty(show, read) ==
    IF show THEN SomeMods(read.base_modifications) ELSE NoMods

\* let mods = if show_modifications && !read.base_modifications.is_empty() {..}
IndividualMods(show, read) ==
    IF show /\ read.base_modifications # EmptyMap
    THEN SomeMods(read.base_modifications)
    ELSE NoMods

\* Bug variant of PairedMods: the first read's map is passed when shown.
PairedModsOfFirstRead(show, read) ==
    IF show /\ read.base_modifications # EmptyMap
    THEN SomeMods(read.base_modifications)
    ELSE NoMods

\* Paired mode: modifications not supported yet; pass None.
PairedMods(show, read) == NoMods

\* The invocations of the individual branch, in iteration order:
\* rows of ys_index, reads of the row, contexts of the read.
IndividualInvocations ==
    Flatten([ y1 \in 1..Len(ys_index) |->
      Flatten([ j \in 1..Len(ys_index[y1]) |->
        LET read_index == ys_index[y1][j]
            read       == reads[read_index + 1]
        IN  [ k \in 1..Len(read.rendering_contexts) |->
                Invocation(read.rendering_contexts[k], y1 - 1,
                           IndividualMods(show_modifications, read), read_index) ] ]) ])

\* Bug variant of PairedInvocations: the visibility flag is not consulted.
PairedInvocationsAllPairs ==
    Flatten([ p \in 1..Min(Len(read_pairs.list), Len(show_pairs.list)) |->
      LET read_pair == read_pairs.list[p] IN
      [ k \in 1..Len(read_pair.rendering_contexts) |->
          Invocation(read_pair.rendering_contexts[k], ys[read_pair.read_1_index + 1],
                     PairedMods(show_modifications, reads[read_pair.read_1_index + 1]),
                     read_pair.read_1_index) ] ])

\* The invocations of the paired branch: read_pairs zipped with show_pairs,
\* the contexts of every pair whose flag is set, at the row of its first read.
PairedInvocations ==
    Flatten([ p \in 1..Min(Len(read_pairs.list), Len(show_pairs.list)) |->
      IF show_pairs.list[p]
      THEN LET read_pair == read_pairs.list[p] IN
           [ k \in 1..Len(read_pair.rendering_contexts) |->
               Invocation(read_pair.rendering_contexts[k], ys[read_pair.read_1_index + 1],
                          PairedMods(show_modifications, reads[read_pair.read_1_index + 1]),
                          read_pair.read_1_index) ]
      ELSE << >> ])

(***************************************************************************)
(* Scenes the renderer is run on.                                          *)
(***************************************************************************)
Read(rendering_contexts, base_modifications) ==
    [rendering_contexts |-> rendering_contexts, base_modifications |-> base_modifications]

ReadPair(read_1_index, rendering_contexts) ==
    [read_1_index |-> read_1_index, rendering_contexts |-> rendering_contexts]

\* An invalid UTF-8 byte.
BadByte == AsciiLimit + 72

PlainRead ==
    Read(<< Context("SoftClip", 67, 8, 9, << >>),
            Context("Match", 0, 10, 12, << Reverse, Mismatch(11, 84) >>),
            Context("Deletion", 0, 13, 14, << >>),
            Context("Match", 0, 15, 16, << Forward >>) >>,
         EmptyMap)

ModifiedRead ==
    Read(<< Context("Match", 0, 10, 12, << Mismatch(11, 84), Insertion(2) >>),
            Context("Match", 0, 13, 14, << Forward >>) >>,
         (11 :> << BaseModification("FiveMC", 200) >>)
           @@ (12 :> << BaseModification("FiveHMC", 100), BaseModification("FiveMC", 50) >>)
           @@ (13 :> << BaseModification("SixMA", 255), BaseModification("FiveHMC", 30) >>))

BadClipRead ==
    Read(<< Context("Match", 0, 10, 12, << >>),
            Context("SoftClip", BadByte, 13, 13, << >>),
            Context("Match", 0, 14, 14, << Forward >>) >>,
         (10 :> << BaseModification("SixMA", 255) >>))

BadMismatchRead ==
    Read(<< Context("Match", 0, 9, 10, << Reverse >>),
            Context("Match", 0, 11, 13, << Mismatch(12, BadByte), Forward >>) >>,
         EmptyMap)

\* Scenario D (a match over 10..=12, a call on 11 alone) and Scenario E (a
\* soft clip four coordinates long).
ScenarioDRead ==
    Read(<< Context("Match", 0, 10, 12, << >>),
            Context("SoftClip", 71, 13, 16, << >>) >>,
         (11 :> << BaseModification("FiveMC", 200) >>))

\* Several modifiers on one cell, and a mismatch that only a wide area shows.
OverlayRead ==
    Read(<< Context("Match", 0, 10, 12,
                    << Reverse, Insertion(2), Mismatch(10, 65), PairConflict(12), Forward >>),
            Context("Match", 0, 13, 17, << Mismatch(17, BadByte) >>) >>,
         (11 :> << BaseModification("SixMA", 255), BaseModification("SixMA", 10) >>)
           @@ (12 :> << BaseModification("SixMA", 90), BaseModification("FiveHMC", 30),
                        BaseModification("FiveMC", 60) >>))

PairA ==
    << Context("Match", 0, 10, 11, << Reverse >>),
       Context("PairGap", 0, 12, 13, << >>),
       Context("Match", 0, 14, 15, << Forward >>) >>

PairB ==
    << Context("Match", 0, 9, 10, << Reverse >>),
       Context("PairOverlap", 0, 11, 12, << PairConflict(11) >>),
       Context("Match", 0, 13, 13, << Forward >>) >>

\* reads and the row assignment ys_index (row -> read indices).
SceneMenu ==
    { [reads |-> << PlainRead, ModifiedRead >>, ys_index |-> << << 0 >>, << 1 >> >>],
      [reads |-> << ModifiedRead, BadClipRead >>, ys_index |-> << << 0, 1 >> >>],
      [reads |-> << BadClipRead, PlainRead, ModifiedRead >>,
       ys_index |-> << << 2 >>, << 0 >>, << 1 >> >>],
      [reads |-> << BadMismatchRead, ModifiedRead >>, ys_index |-> << << >>, << 1, 0 >> >>],
      [reads |-> << ScenarioDRead, OverlayRead >>, ys_index |-> << << 0 >>, << 1 >> >>],
      [reads |-> << ModifiedRead, PlainRead, ScenarioDRead >>,
       ys_index |-> << << 0, 1 >>, << 2 >> >>] }

\* ys: the row of every read, from the row assignment.
RowOf(index, read_index) ==
    (CHOOSE y1 \in 1..Len(index) : \E j \in 1..Len(index[y1]) : index[y1][j] = read_index) - 1

OptionSets == SUBSET {ViewAsPairs, ShowBaseModifications}

ReadPairsMenu == { NoneList, SomeList(<< ReadPair(0, PairA), ReadPair(1, PairB) >>) }

ShowPairsMenu ==
    { NoneList, SomeList(<< TRUE, TRUE >>), SomeList(<< FALSE, TRUE >>),
      SomeList(<< FALSE, FALSE >>) }

\* First reference coordinate and first row the view shows.
ViewMenu == { [left |-> l, top |-> t] : l \in {0, 9, 11, 30}, t \in {0, 1, 5} }

AreaMenu == { [x |-> 1, y |-> 1, width |-> AreaWidth, height |-> h] : h \in {0, AreaHeight} }

RendererInit ==
    /\ \E scene \in SceneMenu :
          /\ reads = scene.reads
          /\ ys_index = scene.ys_index
          /\ ys = [r \in 1..Len(scene.reads) |-> RowOf(scene.ys_index, r - 1)]
    /\ alignment_options \in OptionSets
    /\ read_pairs \in ReadPairsMenu
    /\ show_pairs \in ShowPairsMenu
    /\ alignment_view \in ViewMenu
    /\ area \in AreaMenu
    /\ buf = BlankBuffer(area)
    /\ rpc = "start"
    /\ queue = << >>
    /\ invocations = << >>
    /\ rret = "running"

\* The renderer while the decoder is the subject.
RendererIdle ==
    /\ reads = << >>
    /\ ys_index = << >>
    /\ ys = << >>
    /\ alignment_options = {}
    /\ read_pairs = NoneList
    /\ show_pairs = NoneList
    /\ alignment_view = [left |-> 0, top |-> 0]
    /\ area = [x |-> 1, y |-> 1, width |-> AreaWidth, height |-> AreaHeight]
    /\ buf = << >>
    /\ rpc = "idle"
    /\ queue = << >>
    /\ invocations = << >>
    /\ rret = "running"

sceneVars == << alignment_options, read_pairs, show_pairs, ys, ys_index, reads,
                area, alignment_view >>

\* What render_alignment does before its first compositor invocation.
RenderEntry ==
    IF area.height < 1 THEN "Ok"
    ELSE IF display_as_pairs /\ ~read_pairs.some THEN "StateError"
    \* state.alignment.show_pairs.as_ref().unwrap()
    ELSE IF display_as_pairs /\ ~show_pairs.some THEN "panic"
    ELSE "draw"

\* Lines 25-62: the guards, and the iterator the chosen branch walks.
RenderStart ==
    /\ rpc = "start"
    /\ IF RenderEntry = "draw"
       THEN /\ rpc' = "drawing"
            /\ queue' = IF display_as_pairs THEN PairedInvocations
                        ELSE IndividualInvocations
            /\ UNCHANGED rret
       ELSE /\ rpc' = "done"
            /\ rret' = RenderEntry
            /\ UNCHANGED queue
    /\ UNCHANGED << sceneVars, buf, invocations, decoderVars, peripheralVars >>

\* One compositor invocation; `?` ends the pass on its first error.
RenderContext ==
    /\ rpc = "drawing"
    /\ Len(queue) > 0
    /\ LET i == Head(queue)
           r == render_contexts(i.context, i.y, buf, alignment_view, area, i.mods)
       IN  /\ invocations' = Append(invocations, i)
           /\ buf' = r.buf
           /\ IF r.tag = "Ok"
              THEN /\ queue' = Tail(queue)
                   /\ UNCHANGED << rpc, rret >>
              ELSE /\ rpc' = "done"
                   /\ rret' = IF r.tag = "Err" THEN "GlyphError" ELSE "panic"
                   /\ UNCHANGED queue
    /\ UNCHANGED << sceneVars, decoderVars, peripheralVars >>

\* Ok(())
RenderReturn ==
    /\ rpc = "drawing"
    /\ Len(queue) = 0
    /\ rpc' = "done"
    /\ rret' = "Ok"
    /\ UNCHANGED << sceneVars, buf, queue, invocations, decoderVars, peripheralVars >>

(***************************************************************************)
(* The command parser: parse (crates/gv-core/src/command.rs).              *)
(***************************************************************************)
UppercaseLetters == << "A", "B", "C", "D", "E", "F", "G", "H", "I", "J", "K", "L", "M", "N", "O", "P", "Q", "R", "S", "T", "U", "V", "W", "X", "Y", "Z" >>
LowercaseLetters == << "a", "b", "c", "d", "e", "f", "g", "h", "i", "j", "k", "l", "m", "n", "o", "p", "q", "r", "s", "t", "u", "v", "w", "x", "y", "z" >>

\* char::to_ascii_lowercase / to_ascii_uppercase, and their str forms.
LowerChar(c) ==
    IF \E k \in 1..26 : UppercaseLetters[k] = c
    THEN LowercaseLetters[CHOOSE k \in 1..26 : UppercaseLetters[k] = c]
    ELSE c
UpperChar(c) ==
    IF \E k \in 1..26 : LowercaseLetters[k] = c
    THEN UppercaseLetters[CHOOSE k \in 1..26 : LowercaseLetters[k] = c]
    ELSE c
to_ascii_lowercase(s) == [k \in 1..Len(s) |-> LowerChar(s[k])]
to_ascii_uppercase(s) == [k \in 1..Len(s) |-> UpperChar(s[k])]

\* nom's multispace0 characters; str::trim and char::is_ascii_whitespace agree
\* with it on the characters the model uses.
IsMultispace(c) == c \in {" ", "\t", "\r", "\n"}

RECURSIVE SkipSpace(_)
SkipSpace(s) == IF Len(s) > 0 /\ IsMultispace(s[1]) THEN SkipSpace(Tail(s)) ELSE s

RECURSIVE DropSpaceAtEnd(_)
DropSpaceAtEnd(s) ==
    IF Len(s) > 0 /\ IsMultispace(s[Len(s)])
    THEN DropSpaceAtEnd(SubSeq(s, 1, Len(s) - 1))
    ELSE s

\* str::trim on a command line.
TrimLine(s) == DropSpaceAtEnd(SkipSpace(s))

\* IResult<&str, &str>: Ok((rest, out)) or Err.
IOk(rest, out) == [ok |-> TRUE, rest |-> rest, out |-> out]
IErr == [ok |-> FALSE, rest |-> << >>, out |-> << >>]

\* multispace0: zero or more whitespace characters, never an error.
multispace0(s) == IOk(SkipSpace(s), SubSeq(s, 1, Len(s) - Len(SkipSpace(s))))

\* tag_no_case(t): the first Len(t) characters, compared without case.
tag_no_case(t, s) ==
    IF Len(s) >= Len(t) /\ \A k \in 1..Len(t) : LowerChar(s[k]) = LowerChar(t[k])
    THEN IOk(SubSeq(s, Len(t) + 1, Len(s)), SubSeq(s, 1, Len(t)))
    ELSE IErr

\* alt((tag_no_case(tags[1]), tag_no_case(tags[2]), ..)): the first tag, in
\* the order written, that matches; the later ones are then not tried.
RECURSIVE AltTags(_, _)
AltTags(tags, s) ==
    IF Len(tags) = 0 THEN IErr
    ELSE IF tag_no_case(Head(tags), s).ok THEN tag_no_case(Head(tags), s)
    ELSE AltTags(Tail(tags), s)

\* delimited(multispace0, alt(tags), multispace0).parse(input)? followed by
\* Ok((input, input.is_empty() && !parsed.is_empty()))
KeywordCommand(tags, s) ==
    LET word  == AltTags(tags, multispace0(s).rest)
        after == multispace0(word.rest).rest
    IN  IF ~word.ok THEN [ok |-> FALSE, flag |-> FALSE]
        ELSE [ok |-> TRUE, flag |-> (Len(after) = 0 /\ Len(word.out) > 0)]

restore_default_options(s) == KeywordCommand(<< << "c", "l", "e", "a", "r" >>, << "d", "e", "f", "a", "u", "l", "t" >> >>, s)

view_as_pair(s) == KeywordCommand(<< << "p", "a", "i", "r", "e", "d" >> >>, s)

show_base_modifications(s) == KeywordCommand(<< << "m", "o", "d" >>, << "m", "o", "d", "i", "f", "i", "c", "a", "t", "i", "o", "n", "s" >> >>, s)

\* Message, and the Result<Vec<Message>, TGVError> of parse.
Message(m, a, b) == [m |-> m, a |-> a, b |-> b]
Quit == Message("Quit", << >>, << >>)
SetAlignmentOption(options) == Message("SetAlignmentOption", options, << >>)
Position(n) == Message("Move", "Position", << n >>)
Gene(name) == Message("Move", "Gene", << name >>)
ContigNamePosition(name, n) == Message("Move", "ContigNamePosition", << name, n >>)
Export(format, path) == Message("Export", format, path)

Ok(messages) == [tag |-> "Ok", messages |-> messages]
RegisterError == [tag |-> "RegisterError", messages |-> << >>]
Pending == [tag |-> "Pending", messages |-> << >>]

\* The first whitespace of s (1-based), 0 when there is none.
RECURSIVE FindSpace(_, _)
FindSpace(s, k) ==
    IF k > Len(s) THEN 0
    ELSE IF IsMultispace(s[k]) THEN k
    ELSE FindSpace(s, k + 1)

\* try_parse_export: None, or Some(result).
NotExport == [some |-> FALSE, result |-> Pending]
try_parse_export(s) ==
    LET trimmed == TrimLine(s)
        lower   == to_ascii_lowercase(trimmed)
        rest    == TrimLine(SubSeq(trimmed, 7, Len(trimmed)))
        sp      == FindSpace(rest, 1)
        format_str == IF sp = 0 THEN rest ELSE TrimLine(SubSeq(rest, 1, sp - 1))
        path       == IF sp = 0 THEN << >> ELSE TrimLine(SubSeq(rest, sp + 1, Len(rest)))
        f          == to_ascii_lowercase(format_str)
        format     == CASE f = << "h", "t", "m", "l" >> -> "Html"
                        [] f = << "s", "v", "g" >> -> "Svg"
                        [] f = << "t", "e", "x", "t" >> \/ f = << "t", "x", "t" >> -> "Text"
                        [] OTHER -> "Unknown"
    IN  IF ~(Len(lower) >= 6 /\ SubSeq(lower, 1, 6) = << "e", "x", "p", "o", "r", "t" >>) THEN NotExport
        ELSE IF format = "Unknown" THEN [some |-> TRUE, result |-> RegisterError]
        ELSE IF Len(path) = 0 THEN [some |-> TRUE, result |-> RegisterError]
        ELSE [some |-> TRUE, result |-> Ok(<< Export(format, path) >>)]

\* The words that open a sort or filter expression.
DisplayKeywords == << << "F", "I", "L", "T", "E", "R" >>, << "W", "H", "E", "R", "E" >>, << "S", "O", "R", "T" >>, << "O", "R", "D", "E", "R", " ", "B", "Y" >> >>
StartsDisplayOption(s) == AltTags(DisplayKeywords, multispace0(s).rest).ok

\* parse_display_options on a line that opens no sort or filter expression:
\* many0 stops at once and returns the whole line with no option.
parse_display_options(s) == [rest |-> s, options |-> << >>]

\* str::parse::<u64>: an optional '+', then digits whose value fits 64 bits;
\* the value is kept as its decimal text without leading zeros.
U64MaxText == << "1", "8", "4", "4", "6", "7", "4", "4", "0", "7", "3", "7", "0", "9", "5", "5", "1", "6", "1", "5" >>

RECURSIVE DropZeros(_)
DropZeros(s) == IF Len(s) > 1 /\ s[1] = "0" THEN DropZeros(Tail(s)) ELSE s

\* a <= b for digit texts of equal length.
RECURSIVE DigitsLeq(_, _)
DigitsLeq(a, b) ==
    IF Len(a) = 0 THEN TRUE
    ELSE IF DigitValue(a[1]) < DigitValue(b[1]) THEN TRUE
    ELSE IF DigitValue(a[1]) > DigitValue(b[1]) THEN FALSE
    ELSE DigitsLeq(Tail(a), Tail(b))

ParseU64(s) ==
    LET digits == IF Len(s) > 0 /\ s[1] = "+" THEN Tail(s) ELSE s
        value  == DropZeros(digits)
    IN  IF Len(digits) = 0 \/ \E k \in 1..Len(digits) : ~IsDigit(digits[k])
        THEN [ok |-> FALSE, n |-> << >>]
        ELSE IF Len(value) > Len(U64MaxText)
                \/ (Len(value) = Len(U64MaxText) /\ ~DigitsLeq(value, U64MaxText))
        THEN [ok |-> FALSE, n |-> << >>]
        ELSE [ok |-> TRUE, n |-> value]

\* The last part of parse: a position, a gene name or contig:position.
ParseMovement(s) ==
    LET split == Split(s, ":") IN
    CASE Len(split) = 1 ->
            IF ParseU64(split[1]).ok THEN Ok(<< Position(ParseU64(split[1]).n) >>)
            ELSE Ok(<< Gene(split[1]) >>)
      [] Len(split) = 2 ->
            IF ParseU64(split[2]).ok
            THEN Ok(<< ContigNamePosition(split[1], ParseU64(split[2]).n) >>)
            ELSE RegisterError
      [] OTHER -> RegisterError

\* parse(input)
parse(s) ==
    IF s = << "q" >> THEN Ok(<< Quit >>)
    ELSE IF s = << "h" >> THEN RegisterError
    ELSE IF restore_default_options(s).flag THEN Ok(<< SetAlignmentOption(<< >>) >>)
    ELSE IF view_as_pair(s).flag THEN Ok(<< SetAlignmentOption(<< ViewAsPairs >>) >>)
    ELSE IF show_base_modifications(s).flag
         THEN Ok(<< SetAlignmentOption(<< ShowBaseModifications >>) >>)
    ELSE IF try_parse_export(s).some THEN try_parse_export(s).result
    ELSE IF Len(parse_display_options(s).rest) = 0
         THEN Ok(<< SetAlignmentOption(parse_display_options(s).options) >>)
    ELSE ParseMovement(s)

\* Command lines: words in three spellings, with whitespace around them.
CommandWords ==
    { << "p", "a", "i", "r", "e", "d" >>,
      << "m", "o", "d" >>,
      << "m", "o", "d", "i", "f", "i", "c", "a", "t", "i", "o", "n", "s" >>,
      << "m", "o", "d", "i", "f", "i", "c", "a", "t", "i", "o", "n" >>,
      << "m", "o", "d", "s" >>,
      << "p", "a", "i", "r", "e", "d", "x" >>,
      << "c", "l", "e", "a", "r" >>,
      << "d", "e", "f", "a", "u", "l", "t" >>,
      << "q" >>,
      << "h" >>,
      << "t", "p", "5", "3" >>,
      << "1", "2", "3", "4" >>,
      << "+", "7" >>,
      << "c", "h", "r", "1", ":", "1", "0", "0", "0" >>,
      << "a", ":", "b", ":", "c" >>,
      << "c", "h", "r", "1", ":", "x" >>,
      << "e", "x", "p", "o", "r", "t", " ", "h", "t", "m", "l", " ", "/", "t", "m", "p", "/", "o", ".", "h", "t", "m", "l" >>,
      << "e", "x", "p", "o", "r", "t", " ", "t", "x", "t", " ", "o" >>,
      << "e", "x", "p", "o", "r", "t", " ", "p", "d", "f", " ", "x" >>,
      << "e", "x", "p", "o", "r", "t", " ", "s", "v", "g" >>,
      << "1", "8", "4", "4", "6", "7", "4", "4", "0", "7", "3", "7", "0", "9", "5", "5", "1", "6", "1", "6" >>,
      << >> }

Capitalized(w) == IF Len(w) = 0 THEN w ELSE << UpperChar(w[1]) >> \o Tail(w)

Spellings(w) == { w, to_ascii_uppercase(w), Capitalized(w) }

SpaceBefore == { << >>, << " " >>, << "\t", " " >> }
SpaceAfter == { << >>, << " " >>, << " ", "\n" >> }

CommandInputs ==
    { line \in { l \o w \o r : l \in SpaceBefore, r \in SpaceAfter,
                              w \in UNION { Spellings(v) : v \in CommandWords } } :
        ~StartsDisplayOption(line) }

CommandInit ==
    /\ input \in CommandInputs
    /\ parsed = Pending

CommandIdle ==
    /\ input = << >>
    /\ parsed = Pending

\* parse(input) returns.
Parse ==
    /\ parsed = Pending
    /\ parsed' = parse(input)
    /\ UNCHANGED << input, decoderVars, rendererVars, exportVars, colorVars >>

(***************************************************************************)
(* The export of a buffer: crates/tgv/src/rendering/export.rs.             *)
(***************************************************************************)
\* u8 arithmetic: the wrapped value, and whether the exact one left 0..=255
\* (a panic in a build with overflow checks).
U8Max == 255
U8(v) == [v |-> v % (U8Max + 1), overflow |-> v > U8Max \/ v < 0]

\* Bug variant of scale: the cube's levels start one higher.
scale_from_56(v) == IF v = 0 THEN U8(0) ELSE U8(56 + U8(v * 40).v)

\* let scale = |v: u8| if v == 0 { 0 } else { 55 + v * 40 };
scale(v) ==
    IF v = 0 THEN U8(0)
    ELSE [v |-> U8(55 + U8(v * 40).v).v,
          overflow |-> U8(v * 40).overflow \/ U8(55 + U8(v * 40).v).overflow]

Rgb(r, g, b, overflow) == [r |-> r, g |-> g, b |-> b, overflow |-> overflow]
NoRgb == [r |-> 0, g |-> 0, b |-> 0, overflow |-> FALSE, none |-> TRUE]

\* The arms 0..=15 of indexed_to_rgb, by index + 1.
StandardColors ==
    << << 0, 0, 0 >>, << 128, 0, 0 >>, << 0, 128, 0 >>, << 128, 128, 0 >>,
       << 0, 0, 128 >>, << 128, 0, 128 >>, << 0, 128, 128 >>, << 192, 192, 192 >>,
       << 128, 128, 128 >>, << 255, 0, 0 >>, << 0, 255, 0 >>, << 255, 255, 0 >>,
       << 0, 0, 255 >>, << 255, 0, 255 >>, << 0, 255, 255 >>, << 255, 255, 255 >> >>

indexed_to_rgb(i) ==
    CASE i \in 0..15 ->
            Rgb(StandardColors[i + 1][1], StandardColors[i + 1][2], StandardColors[i + 1][3],
                FALSE)
      [] i \in 16..231 ->
            LET n == U8(i - 16)
                b == n.v % 6
                g == (n.v \div 6) % 6
                r == n.v \div 36
            IN  Rgb(scale(r).v, scale(g).v, scale(b).v,
                    n.overflow \/ scale(r).overflow \/ scale(g).overflow \/ scale(b).overflow)
      [] i \in 232..U8Max ->
            LET d == U8(i - 232)
                m == U8(d.v * 10)
                v == U8(8 + m.v)
            IN  Rgb(v.v, v.v, v.v, d.overflow \/ m.overflow \/ v.overflow)

\* format!("{:02x}", n)
HexDigits == << "0", "1", "2", "3", "4", "5", "6", "7", "8", "9", "a", "b", "c", "d", "e", "f" >>
Hex2(n) == << HexDigits[(n \div 16) + 1], HexDigits[(n % 16) + 1] >>
HexColor(r, g, b) == << "#" >> \o Hex2(r) \o Hex2(g) \o Hex2(b)

\* Colours of an exported cell: Reset, the 16 named ones, Rgb and Indexed.
NamedColors ==
    << "Black", "Red", "Green", "Yellow", "Blue", "Magenta", "Cyan", "Gray",
       "DarkGray", "LightRed", "LightGreen", "LightYellow", "LightBlue",
       "LightMagenta", "LightCyan", "White" >>
NamedColor(name) == Color(name, "", 0)
\* Color::Rgb(r, g, b), its three bytes packed into one number.
RgbColor(r, g, b) == Color("Rgb", "", (r * (U8Max + 1) + g) * (U8Max + 1) + b)
IndexedColor(i) == Color("Indexed", "", i)

Inherit == << "i", "n", "h", "e", "r", "i", "t" >>

\* color_to_css
color_to_css(color) ==
    CASE color.name = "Black" -> << "#", "0", "0", "0", "0", "0", "0" >>
      [] color.name = "Red" -> << "#", "8", "0", "0", "0", "0", "0" >>
      [] color.name = "Green" -> << "#", "0", "0", "8", "0", "0", "0" >>
      [] color.name = "Yellow" -> << "#", "8", "0", "8", "0", "0", "0" >>
      [] color.name = "Blue" -> << "#", "0", "0", "0", "0", "8", "0" >>
      [] color.name = "Magenta" -> << "#", "8", "0", "0", "0", "8", "0" >>
      [] color.name = "Cyan" -> << "#", "0", "0", "8", "0", "8", "0" >>
      [] color.name = "Gray" -> << "#", "c", "0", "c", "0", "c", "0" >>
      [] color.name = "DarkGray" -> << "#", "8", "0", "8", "0", "8", "0" >>
      [] color.name = "LightRed" -> << "#", "f", "f", "0", "0", "0", "0" >>
      [] color.name = "LightGreen" -> << "#", "0", "0", "f", "f", "0", "0" >>
      [] color.name = "LightYellow" -> << "#", "f", "f", "f", "f", "0", "0" >>
      [] color.name = "LightBlue" -> << "#", "0", "0", "0", "0", "f", "f" >>
      [] color.name = "LightMagenta" -> << "#", "f", "f", "0", "0", "f", "f" >>
      [] color.name = "LightCyan" -> << "#", "0", "0", "f", "f", "f", "f" >>
      [] color.name = "White" -> << "#", "f", "f", "f", "f", "f", "f" >>
      [] OTHER -> Inherit

\* color_to_css_owned
color_to_css_owned(color) ==
    CASE color.name = "Rgb" ->
            HexColor(color.n \div ((U8Max + 1) * (U8Max + 1)),
                     (color.n \div (U8Max + 1)) % (U8Max + 1), color.n % (U8Max + 1))
      [] color.name = "Indexed" ->
            HexColor(indexed_to_rgb(color.n).r, indexed_to_rgb(color.n).g,
                     indexed_to_rgb(color.n).b)
      [] OTHER -> color_to_css(color)

\* push_html_escaped(buf, c): buf with the safe form of c appended.
push_html_escaped(out, c) ==
    CASE c = "&" -> out \o << "&", "a", "m", "p", ";" >>
      [] c = "<" -> out \o << "&", "l", "t", ";" >>
      [] c = ">" -> out \o << "&", "g", "t", ";" >>
      [] c = "\"" -> out \o << "&", "q", "u", "o", "t", ";" >>
      [] c = " " -> out \o << "&", "n", "b", "s", "p", ";" >>
      [] OTHER -> Append(out, c)

\* Buffer: its area and the cells of that area, by absolute position.
AreaCells(a) == (a.x..(a.x + a.width - 1)) \X (a.y..(a.y + a.height - 1))
Buffer(a, content) == [area |-> a, content |-> content]
\* Buffer::empty(area)
EmptyBuffer(a) == Buffer(a, [c \in AreaCells(a) |-> BlankCell])

\* Buffer::cell((x, y)): None outside the buffer's area.
NoCell == [some |-> FALSE, cell |-> BlankCell]
BufferCell(b, x, y) ==
    IF << x, y >> \in DOMAIN b.content
    THEN [some |-> TRUE, cell |-> b.content[<< x, y >>]]
    ELSE NoCell

\* The pieces buffer_to_html appends to body: a span with its two colours
\* and its text, or a line end.
HtmlSpan(fg, bg, text) == [tag |-> "span", fg |-> fg, bg |-> bg, text |-> text]
LineEnd == [tag |-> "newline", fg |-> << >>, bg |-> << >>, text |-> << >>]

\* for ch in symbol.chars() { push_html_escaped(&mut body, ch) }; a cell's
\* symbol is one character in the model.
EscapedSymbol(symbol) == push_html_escaped(<< >>, symbol)

\* Sizes of the exported buffers.
ExportWidth == 3
ExportHeight == 2

\* Texts written into the buffer before it is exported, and their styles.
ExportTexts == { << "<", "b", ">" >>, << "a", "&", "b" >>, << "\"", " ", "<" >>, << "H", "i" >>, << ">" >> }
ExportStyles ==
    { StyleDefault, Style(IndexedColor(196), RgbColor(255, 128, 0)),
      Style(NamedColor("White"), IndexedColor(232)) }

ExportAreas ==
    { [x |-> x, y |-> y, width |-> w, height |-> h] :
        x \in {0, 1}, y \in {0, 1}, w \in 1..ExportWidth, h \in 1..ExportHeight }

\* Buffer::empty(area) and one set_string at its first cell.
ExportBuffers ==
    { Buffer(a, set_string(EmptyBuffer(a).content, a.x, a.y, t, st)) :
        a \in ExportAreas, t \in ExportTexts, st \in ExportStyles }

ExportInit ==
    /\ snapshot \in ExportBuffers
    /\ ey = 0
    /\ ex = 0
    /\ body = << >>
    /\ epc = "cells"

ExportIdle ==
    /\ snapshot = EmptyBuffer([x |-> 0, y |-> 0, width |-> 0, height |-> 0])
    /\ ey = 0
    /\ ex = 0
    /\ body = << >>
    /\ epc = "idle"

\* One iteration of `for x in 0..buf.area.width`.
HtmlCell ==
    /\ epc = "cells"
    /\ ey < snapshot.area.height
    /\ ex < snapshot.area.width
    /\ LET c == BufferCell(snapshot, ex, ey) IN
       body' = IF c.some
               THEN Append(body, HtmlSpan(color_to_css_owned(c.cell.fg),
                                          color_to_css_owned(c.cell.bg),
                                          EscapedSymbol(c.cell.symbol)))
               ELSE body
    /\ ex' = ex + 1
    /\ UNCHANGED << snapshot, ey, epc, decoderVars, rendererVars, commandVars, colorVars >>

\* The end of one iteration of `for y in 0..buf.area.height`.
HtmlRowEnd ==
    /\ epc = "cells"
    /\ ey < snapshot.area.height
    /\ ex = snapshot.area.width
    /\ body' = Append(body, LineEnd)
    /\ ey' = ey + 1
    /\ ex' = 0
    /\ UNCHANGED << snapshot, epc, decoderVars, rendererVars, commandVars, colorVars >>

\* format!(..): the body inside the fixed page.
HtmlReturn ==
    /\ epc = "cells"
    /\ ey = snapshot.area.height
    /\ epc' = "done"
    /\ UNCHANGED << snapshot, ey, ex, body, decoderVars, rendererVars, commandVars,
                    colorVars >>

ColorInit ==
    /\ idx \in 0..U8Max
    /\ rgb = NoRgb

ColorIdle ==
    /\ idx = 0
    /\ rgb = NoRgb

\* indexed_to_rgb(idx) returns.
Resolve ==
    /\ rgb = NoRgb
    /\ rgb' = indexed_to_rgb(idx)
    /\ UNCHANGED << idx, decoderVars, rendererVars, commandVars, exportVars >>

(***************************************************************************)
(* Specifications.                                                         *)
(***************************************************************************)
PeripheralIdle == CommandIdle /\ ExportIdle /\ ColorIdle

Init == DecoderInit /\ RendererIdle /\ PeripheralIdle

Next == BuildMaps \/ ParseSection \/ DeltaToken \/ Return

Spec == Init /\ [][Next]_vars

RenderInit == RendererInit /\ DecoderIdle /\ PeripheralIdle

RenderNext == RenderStart \/ RenderContext \/ RenderReturn

RenderSpec == RenderInit /\ [][RenderNext]_vars

CommandSpecInit == CommandInit /\ DecoderIdle /\ RendererIdle /\ ExportIdle /\ ColorIdle

CommandNext == Parse

CommandSpec == CommandSpecInit /\ [][CommandNext]_vars

ExportSpecInit == ExportInit /\ DecoderIdle /\ RendererIdle /\ CommandIdle /\ ColorIdle

ExportNext == HtmlCell \/ HtmlRowEnd \/ HtmlReturn

ExportSpec == ExportSpecInit /\ [][ExportNext]_vars

ColorSpecInit == ColorInit /\ DecoderIdle /\ RendererIdle /\ CommandIdle /\ ExportIdle

ColorNext == Resolve

ColorSpec == ColorSpecInit /\ [][ColorNext]_vars

(***************************************************************************)
(* Vocabulary of the decoder's claims, read off the tag text alone.        *)
(***************************************************************************)
RECURSIVE CountChar(_, _)
CountChar(s, c) ==
    IF Len(s) = 0 THEN 0
    ELSE (IF s[1] = c THEN 1 ELSE 0) + CountChar(Tail(s), c)

\* The delta tokens of a section: the comma-separated pieces after its header.
NumDeltaTokens(raw) ==
    LET d == DeltasStrOf(Trim(raw)) IN
    IF Len(d) = 0 THEN 0 ELSE 1 + CountChar(d, ",")

RECURSIVE TokensInSections(_, _)
TokensInSections(sections, n) ==
    IF n = 0 THEN 0
    ELSE TokensInSections(sections, n - 1) + NumDeltaTokens(sections[n])

\* Delta tokens of the tag in its first n sections.
TokensBefore(n) == TokensInSections(SectionList(mm_str), n)

HasHeader(raw) == Len(HeaderOf(Trim(raw))) >= 3

IsReverseSection(raw) == HasHeader(raw) /\ HeaderOf(Trim(raw))[2] = "-"

IsUnknownCodeSection(raw) ==
    HasHeader(raw) /\ HeaderOf(Trim(raw))[3] \notin {"m", "h", "a"}

\* The value of the t-th delta token of section raw (numeric tokens only).
DeltaValue(raw, t) == ParseUsize(Trim(Split(DeltasStrOf(Trim(raw)), ",")[t]))

RECURSIVE SumDeltas(_, _)
SumDeltas(raw, t) ==
    IF t = 0 THEN 0 ELSE SumDeltas(raw, t - 1) + DeltaValue(raw, t)

\* The section the next step works on, while the section loop runs.
InSectionLoop == pc \in {"section", "delta"} /\ sec_i < Len(SectionList(mm_str))
CurrentSection == SectionList(mm_str)[sec_i + 1]

IsInput(tag, ml, read) ==
    /\ mm_str = tag
    /\ ml_bytes = ml
    /\ seq = read.seq
    /\ cigar_ops = read.cigar_ops
    /\ alignment_start = read.alignment_start

(***************************************************************************)
(* C1. The probability-byte cursor advances exactly once per delta token   *)
(* of the tag: between sections it equals the number of delta tokens of    *)
(* the sections walked, inside a delta loop that number plus the tokens    *)
(* of the loop already taken, and every call reads the byte whose index    *)
(* is the number of delta tokens before its own.                           *)
(***************************************************************************)
C1_CursorCountsEveryDeltaToken ==
    /\ pc \in {"section", "done"} => ml_cursor = TokensBefore(sec_i)
    /\ pc = "delta" => ml_cursor = TokensBefore(sec_i) + tok_i
    /\ \A k \in 1..Len(calls) :
          calls[k].ml_index = TokensBefore(calls[k].section - 1) + (calls[k].token - 1)

(***************************************************************************)
(* C3. parse_modification_data never aborts and returns Ok on every        *)
(* input; it walks every section of the tag even after a non-numeric       *)
(* token, and every aligned call made so far is kept in the result.        *)
(***************************************************************************)
C3_NeverAbortsKeepsEntries ==
    /\ ret # "panic"
    /\ pc = "done" => ret = "Ok" /\ sec_i = Len(SectionList(mm_str))
    /\ \A k \in 1..Len(calls) :
          calls[k].query_pos \in DOMAIN q_to_r =>
             /\ q_to_r[calls[k].query_pos] \in DOMAIN result
             /\ \E e \in 1..Len(result[q_to_r[calls[k].query_pos]]) :
                   result[q_to_r[calls[k].query_pos]][e].probability
                      = calls[k].probability

(***************************************************************************)
(* C4. A section with an unrecognized modification code makes no call,     *)
(* and a delta loop entered after such a section starts with the cursor    *)
(* at the number of delta tokens of all the sections before it.            *)
(***************************************************************************)
C4_UnknownCodeKeepsCursorInStep ==
    /\ \A k \in 1..Len(calls) :
          ~IsUnknownCodeSection(SectionList(mm_str)[calls[k].section])
    /\ ( /\ pc = "delta"
         /\ tok_i = 0
         /\ \E j \in 1..sec_i : IsUnknownCodeSection(SectionList(mm_str)[j]) )
       => ml_cursor = TokensBefore(sec_i)

(***************************************************************************)
(* C5. A reverse-strand section never contributes a map entry: no step     *)
(* that works on such a section changes the result, and a tag made only    *)
(* of reverse-strand sections leaves the result empty.                     *)
(***************************************************************************)
OnlyReverseSections ==
    \A j \in 1..Len(SectionList(mm_str)) : IsReverseSection(SectionList(mm_str)[j])

C5_ReverseStrandNoEntry ==
    /\ [][ (InSectionLoop /\ IsReverseSection(CurrentSection)) => result' = result ]_vars
    /\ [](OnlyReverseSections => result = EmptyMap)

\* Scenario C has been decoded: its one delta token is counted, nothing is mapped.
C5_Witness ==
    /\ mm_str = ScenarioCTag
    /\ seq = ScenarioARead.seq
    /\ pc = "done"
    /\ ml_cursor = 1
    /\ result = EmptyMap

(***************************************************************************)
(* C6. In a decodable section the i-th call targets the occurrence of the  *)
(* section's base with index (d1 + ... + di) + (i - 1), and Scenario A     *)
(* decodes to exactly {2: [5mC@200], 6: [5mC@50]}.                         *)
(***************************************************************************)
\* The number of calls of calls[k]'s section up to and including calls[k].
CallRank(k) == Cardinality({ j \in 1..k : calls[j].section = calls[k].section })

ScenarioAResult ==
    (2 :> << BaseModification("FiveMC", 200) >>)
       @@ (6 :> << BaseModification("FiveMC", 50) >>)

C6_CallTargetsDeltaSum ==
    /\ \A k \in 1..Len(calls) :
          calls[k].index
             = SumDeltas(SectionList(mm_str)[calls[k].section], CallRank(k))
                  + (CallRank(k) - 1)
    /\ (IsInput(ScenarioATag, << 200, 50 >>, ScenarioARead) /\ pc = "done")
          => result = ScenarioAResult

(***************************************************************************)
(* C7. The query-offset -> reference-position map holds exactly the        *)
(* offsets a match-class operation consumes; an offset of the k-th         *)
(* operation maps to the alignment start plus the reference bases          *)
(* consumed before it, consecutive offsets of a run to consecutive         *)
(* positions, and the map is strictly increasing over the read.            *)
(***************************************************************************)
MatchClass == {"Match", "SequenceMatch", "SequenceMismatch"}
ConsumesQuery == MatchClass \cup {"SoftClip", "Insertion"}
ConsumesReference == MatchClass \cup {"Deletion", "Skip"}

RECURSIVE LenBefore(_, _, _)
LenBefore(ops, k, kinds) ==
    IF k <= 1 THEN 0
    ELSE LenBefore(ops, k - 1, kinds)
           + (IF ops[k - 1].kind \in kinds THEN ops[k - 1].len ELSE 0)

\* The query offsets the k-th operation covers, if it is match-class.
RunOffsets(ops, k) ==
    IF ops[k].kind \in MatchClass
    THEN { LenBefore(ops, k, ConsumesQuery) + i : i \in 0..(ops[k].len - 1) }
    ELSE {}

C7_QueryToReferenceMap ==
    pc # "start" =>
       /\ DOMAIN q_to_r = UNION { RunOffsets(cigar_ops, k) : k \in 1..Len(cigar_ops) }
       /\ \A k \in 1..Len(cigar_ops) : \A q \in RunOffsets(cigar_ops, k) :
             q_to_r[q] = alignment_start
                           + LenBefore(cigar_ops, k, ConsumesReference)
                           + (q - LenBefore(cigar_ops, k, ConsumesQuery))
       /\ \A k \in 1..Len(cigar_ops) : \A q \in RunOffsets(cigar_ops, k) :
             (q + 1) \in RunOffsets(cigar_ops, k) => q_to_r[q + 1] = q_to_r[q] + 1
       /\ \A q1, q2 \in DOMAIN q_to_r : q1 < q2 => q_to_r[q1] < q_to_r[q2]

\* A match run after an insertion and a deletion has been mapped.
C7_Witness ==
    /\ pc = "done"
    /\ cigar_ops = << Op("Match", 1), Op("Insertion", 2), Op("Deletion", 1) >>
                      \o << Op("SequenceMatch", 1) >>
          \/ cigar_ops = << Op("Insertion", 2), Op("Deletion", 2), Op("Match", 2) >>
    /\ alignment_start = 5
    /\ 3 \in DOMAIN q_to_r
    /\ q_to_r[3] = 8

(***************************************************************************)
(* C8. Base occurrences are counted over the whole query sequence; a call  *)
(* on an offset without a reference position adds no entry, consumes one   *)
(* probability byte and leaves the position cursor one past the selected   *)
(* occurrence; Scenario B decodes to exactly {2: [5mC@255]}.               *)
(***************************************************************************)
\* The offsets of base b in s, in increasing order.
RECURSIVE OffsetsOf(_, _, _)
OffsetsOf(s, b, n) ==
    IF n = 0 THEN << >>
    ELSE OffsetsOf(s, b, n - 1)
           \o (IF ToAsciiUppercase(s[n]) = b THEN << n - 1 >> ELSE << >>)

ScenarioBResult == (2 :> << BaseModification("FiveMC", 255) >>)

C8_UnalignedCallStillCounts ==
    /\ [](pc # "start" =>
            /\ DOMAIN base_positions = { ToAsciiUppercase(seq[i]) : i \in 1..Len(seq) }
            /\ \A b \in DOMAIN base_positions :
                  base_positions[b] = OffsetsOf(seq, b, Len(seq)))
    /\ [][ ( /\ Len(calls') = Len(calls) + 1
             /\ calls'[Len(calls')].query_pos \notin DOMAIN q_to_r )
           => /\ result' = result
              /\ ml_cursor' = ml_cursor + 1
              /\ pos_cursor' = calls'[Len(calls')].index + 1 ]_vars
    /\ []((IsInput(ScenarioBTag, << 255 >>, ScenarioBRead) /\ pc = "done")
            => result = ScenarioBResult)

\* A call on the soft-clipped C was followed by a call that depends on it.
C8_Witness ==
    /\ seq = ClippedRead.seq
    /\ Len(calls) = 2
    /\ calls[1].query_pos \notin DOMAIN q_to_r
    /\ calls[2].query_pos \in DOMAIN q_to_r
    /\ calls[2].index = 2
    /\ calls[2].ml_index = 1
    /\ DOMAIN result = {6}

(***************************************************************************)
(* Vocabulary of the renderer's claims.                                    *)
(***************************************************************************)
PairingAbsent == ~read_pairs.some \/ ~show_pairs.some

\* The invocation's row is off-screen, or its span has no on-screen cell.
OffScreen(i) ==
    \/ onscreen_y_coordinate(alignment_view, i.y, area).t # "OnScreen"
    \/ ~onscreen_start_and_length(
           onscreen_x_coordinate(alignment_view, i.context.start, area),
           onscreen_x_coordinate(alignment_view, i.context.end, area), area).some

(***************************************************************************)
(* C2. On an area of at least one line, render_alignment in paired mode    *)
(* with the read pairs or the visibility flags absent returns a state      *)
(* error, never panics and writes no cell; in individual mode their        *)
(* absence is no error.                                                    *)
(***************************************************************************)
C2_PairedModeNeedsPairsAndFlags ==
    /\ (area.height >= 1 /\ display_as_pairs /\ PairingAbsent) =>
          /\ rret # "panic"
          /\ buf = BlankBuffer(area)
          /\ rpc = "done" => rret = "StateError"
    /\ (rpc \notin {"idle"} /\ ~display_as_pairs) => rret # "StateError"

(***************************************************************************)
(* C9. In paired mode every compositor invocation gets no modification     *)
(* map, whatever ShowBaseModifications is; in individual mode an           *)
(* invocation gets its read's map iff ShowBaseModifications is set and     *)
(* that map is non-empty.                                                  *)
(***************************************************************************)
C9_ModificationsOnlyIndividual ==
    \A k \in 1..Len(invocations) :
       LET i == invocations[k] IN
       /\ display_as_pairs => i.mods = NoMods
       /\ ~display_as_pairs =>
             /\ i.mods.some <=>
                   (show_modifications /\ reads[i.read + 1].base_modifications # EmptyMap)
             /\ i.mods.some => i.mods.map = reads[i.read + 1].base_modifications

\* A pair whose first read carries calls was drawn with the option set.
C9_Witness ==
    /\ display_as_pairs
    /\ show_modifications
    /\ rpc = "done"
    /\ rret = "Ok"
    /\ \E k \in 1..Len(invocations) :
          reads[invocations[k].read + 1].base_modifications # EmptyMap

(***************************************************************************)
(* C10. A compositor invocation whose row is off-screen, or whose span     *)
(* has no on-screen width, writes no cell and returns success, whatever    *)
(* the context's kind, bytes and modifiers: the buffer is unchanged and    *)
(* the pass goes on.                                                       *)
(***************************************************************************)
C10_OffScreenIsNoOp ==
    [][ (rpc = "drawing" /\ Len(queue) > 0 /\ OffScreen(Head(queue)))
        => /\ buf' = buf
           /\ rret' = rret
           /\ rpc' = "drawing"
           /\ queue' = Tail(queue) ]_vars

\* A pass over contexts that were all off-screen, one of them a soft clip
\* with an invalid byte, ended Ok with the buffer blank.
C10_Witness ==
    /\ rpc = "done"
    /\ rret = "Ok"
    /\ buf = BlankBuffer(area)
    /\ \E k \in 1..Len(invocations) :
          invocations[k].context.kind = "SoftClip" /\ invocations[k].context.base = BadByte
    /\ \A k \in 1..Len(invocations) : OffScreen(invocations[k])
    /\ Len(invocations) >= 7

(***************************************************************************)
(* Vocabulary of the compositor's claims: what one invocation should put   *)
(* on the screen, read off the invocation and the view transform.          *)
(***************************************************************************)
\* A compositor invocation is about to be made; Current is that invocation.
Stepping == rpc = "drawing" /\ Len(queue) > 0
Current == Head(queue)

ColumnOf(p) == onscreen_x_coordinate(alignment_view, p, area)
OnScreenAt(p) == ColumnOf(p).t = "OnScreen"
ScreenRow(i) == onscreen_y_coordinate(alignment_view, i.y, area).n
Visible(i) == ~OffScreen(i)

\* The buffer cell of screen column x on the invocation's row.
CellAt(i, x) == << area.x + x, area.y + ScreenRow(i) >>

\* The on-screen reference positions of a context, left to right.
VisibleSet(c) == { p \in c.start..c.end : OnScreenAt(p) }
VisiblePositions(c) ==
    [ k \in 1..Cardinality(VisibleSet(c)) |->
        CHOOSE p \in VisibleSet(c) : Cardinality({ q \in VisibleSet(c) : q < p }) = k - 1 ]

\* The coordinate a modifier is anchored at, and its glyph.
Anchor(c, m) ==
    CASE m.m = "Forward" -> c.end
      [] m.m \in {"Reverse", "Insertion"} -> c.start
      [] m.m \in {"Mismatch", "PairConflict"} -> m.pos

Glyph(m) ==
    CASE m.m = "Forward" -> ">"
      [] m.m = "Reverse" -> "<"
      [] m.m = "Insertion" -> "|"
      [] m.m = "Mismatch" -> ByteGlyph(m.base)
      [] m.m = "PairConflict" -> "?"

\* The indices of the modifiers whose anchor is on-screen, in list order.
AnchoredSet(c) == { j \in 1..Len(c.modifiers) : OnScreenAt(Anchor(c, c.modifiers[j])) }
Anchored(c) ==
    [ k \in 1..Cardinality(AnchoredSet(c)) |->
        CHOOSE j \in AnchoredSet(c) : Cardinality({ q \in AnchoredSet(c) : q < j }) = k - 1 ]

\* A byte with no glyph sits where the invocation would draw it.
BadGlyphOnScreen(i) ==
    /\ Visible(i)
    /\ \/ i.context.kind = "SoftClip" /\ i.context.base >= AsciiLimit
       \/ \E j \in AnchoredSet(i.context) :
             /\ i.context.modifiers[j].m = "Mismatch"
             /\ i.context.modifiers[j].base >= AsciiLimit

\* What the compositor computes for the invocation; its base cells are the
\* ones before the modifiers' cells.
Rendered(i) == get_read_rendering_info(i.context, i.y, alignment_view, area, i.mods)
BaseCells(i) ==
    SubSeq(Rendered(i).output, 1,
           Len(Rendered(i).output) - Cardinality(AnchoredSet(i.context)))

\* The call that decides a position's colour: the first 5mC call, else the
\* first 5hmC call, else the first call.
FirstOfType(mod_list, t) ==
    CHOOSE j \in 1..Len(mod_list) :
        /\ mod_list[j].modification_type = t
        /\ \A q \in 1..(j - 1) : mod_list[q].modification_type # t
HasType(mod_list, t) == \E j \in 1..Len(mod_list) : mod_list[j].modification_type = t
ChosenCall(mod_list) ==
    IF HasType(mod_list, "FiveMC") THEN mod_list[FirstOfType(mod_list, "FiveMC")]
    ELSE IF HasType(mod_list, "FiveHMC") THEN mod_list[FirstOfType(mod_list, "FiveHMC")]
    ELSE mod_list[1]
ChosenColor(mod_list) ==
    modification_color(ChosenCall(mod_list).modification_type, ChosenCall(mod_list).probability)

\* The colours the calls of a position could give.
CallColors(mod_list) ==
    { modification_color(mod_list[j].modification_type, mod_list[j].probability) :
        j \in 1..Len(mod_list) }

(***************************************************************************)
(* C11. A visible Match context drawn without a modification map gives one *)
(* run of the aligned glyph over its whole on-screen width with the        *)
(* default aligned background; drawn with a map it gives one cell per      *)
(* on-screen reference position, whose background is a colour of that      *)
(* position's calls when the map has the position and the default aligned  *)
(* background otherwise. Without modifiers the buffer ends with exactly    *)
(* those cells.                                                            *)
(***************************************************************************)
C11_MatchRunOrCells ==
    [][ (Stepping /\ Current.context.kind = "Match" /\ Visible(Current)
           /\ ~BadGlyphOnScreen(Current)) =>
        LET i    == Current
            cols == VisiblePositions(i.context)
            base == BaseCells(i)
        IN  /\ Len(cols) >= 1
            /\ ~i.mods.some =>
                  /\ Len(base) = 1
                  /\ base[1] = OnScreenRenderingContext(
                                  ColumnOf(cols[1]).n, ScreenRow(i), Repeat("-", Len(cols)),
                                  Style(MATCH_FG_COLOR, MATCH_COLOR))
            /\ i.mods.some =>
                  /\ Len(base) = Len(cols)
                  /\ \A k \in 1..Len(cols) :
                        /\ base[k].x = ColumnOf(cols[k]).n
                        /\ base[k].y = ScreenRow(i)
                        /\ base[k].string = << "-" >>
                        /\ base[k].style.fg = MATCH_FG_COLOR
                        /\ IF cols[k] \in DOMAIN i.mods.map
                           THEN base[k].style.bg \in CallColors(i.mods.map[cols[k]])
                           ELSE base[k].style.bg = MATCH_COLOR
            /\ i.context.modifiers = << >> =>
                  \A k \in 1..Len(cols) :
                     /\ buf'[CellAt(i, ColumnOf(cols[k]).n)].symbol = "-"
                     /\ buf'[CellAt(i, ColumnOf(cols[k]).n)].fg = MATCH_FG_COLOR
                     /\ buf'[CellAt(i, ColumnOf(cols[k]).n)].bg =
                           (IF i.mods.some /\ cols[k] \in DOMAIN i.mods.map
                            THEN base[k].style.bg ELSE MATCH_COLOR) ]_vars

\* Scenario D is on the screen, with and without the map: positions 10 and 12
\* in the default background and 11 coloured, or all three in the default one.
C11_Witness ==
    /\ rpc = "done"
    /\ rret = "Ok"
    /\ ~display_as_pairs
    /\ reads[1] = ScenarioDRead
    /\ alignment_view = [left |-> 9, top |-> 0]
    /\ \A p \in 10..12 :
          /\ buf[<< area.x + (p - 9), area.y >>].symbol = "-"
          /\ buf[<< area.x + (p - 9), area.y >>].bg =
                (IF show_modifications /\ p = 11
                 THEN modification_color("FiveMC", 200) ELSE MATCH_COLOR)
    /\ show_modifications

(***************************************************************************)
(* C12. For every reference position of a context drawn with a             *)
(* modification map, the colour looked up is that of the first 5mC call of *)
(* the position's list, else of its first 5hmC call, else of its first     *)
(* call, by the call's type and probability; a position the map does not   *)
(* hold yields no colour. The cells of a Match context without modifiers   *)
(* end with those backgrounds.                                             *)
(***************************************************************************)
C12_CallPrecedence ==
    [][ (Stepping /\ Current.mods.some) =>
        LET i == Current IN
        /\ \A p \in i.context.start..i.context.end :
              mod_bg_at(p, i.mods.map) =
                 (IF p \in DOMAIN i.mods.map THEN ChosenColor(i.mods.map[p]) ELSE NoColor)
        /\ (i.context.kind = "Match" /\ Visible(i) /\ i.context.modifiers = << >>) =>
              \A p \in VisibleSet(i.context) :
                 p \in DOMAIN i.mods.map =>
                    buf'[CellAt(i, ColumnOf(p).n)].bg = ChosenColor(i.mods.map[p]) ]_vars

\* A list whose 5mC call comes after a 6mA and a 5hmC call, and a list of 6mA
\* calls alone, have been looked up and drawn.
C12_Witness ==
    /\ rpc = "done"
    /\ rret = "Ok"
    /\ show_modifications
    /\ ~display_as_pairs
    /\ \E k \in 1..Len(invocations) :
          /\ invocations[k].mods.some
          /\ 12 \in DOMAIN invocations[k].mods.map
          /\ invocations[k].mods.map[12][1].modification_type = "SixMA"
          /\ invocations[k].mods.map[12][2].modification_type = "FiveHMC"
          /\ ChosenCall(invocations[k].mods.map[12]) = BaseModification("FiveMC", 60)
          /\ 11 \in DOMAIN invocations[k].mods.map
          /\ ~HasType(invocations[k].mods.map[11], "FiveMC")
          /\ ~HasType(invocations[k].mods.map[11], "FiveHMC")
          /\ Len(invocations[k].mods.map[11]) = 2
          /\ Visible(invocations[k])

(***************************************************************************)
(* C13. A visible invocation without a glyph error puts its base cells     *)
(* first and then one cell per modifier whose own anchor is on-screen, in  *)
(* modifier-list order, at that anchor: the context's end for Forward, its *)
(* start for Reverse and Insertion, the modifier's position for Mismatch   *)
(* and PairConflict. A modifier whose anchor is off-screen puts nothing.   *)
(* A cell that modifiers target ends with the glyph of the last of them    *)
(* and with the colours that modifier's style sets.                        *)
(***************************************************************************)
C13_ModifiersOverlayInOrder ==
    [][ (Stepping /\ Visible(Current) /\ ~BadGlyphOnScreen(Current)) =>
        LET i    == Current
            c    == i.context
            out  == Rendered(i).output
            on   == Anchored(c)
            b    == Len(out) - Len(on)
            Last(x) == CHOOSE k \in 1..Len(on) :
                          /\ out[b + k].x = x
                          /\ \A q \in (k + 1)..Len(on) : out[b + q].x # x
        IN  /\ Rendered(i).tag = "Some"
            /\ b >= 1
            /\ \A k \in 1..Len(on) :
                  /\ out[b + k].x = ColumnOf(Anchor(c, c.modifiers[on[k]])).n
                  /\ out[b + k].y = ScreenRow(i)
                  /\ out[b + k].string = << Glyph(c.modifiers[on[k]]) >>
            /\ \A k \in 1..Len(on) :
                  LET cell  == buf'[CellAt(i, out[b + k].x)]
                      style == out[b + Last(out[b + k].x)].style
                  IN  /\ cell.symbol = Glyph(c.modifiers[on[Last(out[b + k].x)]])
                      /\ style.fg # NoColor => cell.fg = style.fg
                      /\ style.bg # NoColor => cell.bg = style.bg ]_vars

\* The cell of coordinate 10 took the strand arrow, then the insertion bar and
\* last the mismatch, and the cell of 12 the conflict mark and then the arrow.
C13_Witness ==
    /\ rpc = "done"
    /\ rret = "Ok"
    /\ ~display_as_pairs
    /\ ~show_modifications
    /\ reads[2] = OverlayRead
    /\ alignment_view = [left |-> 9, top |-> 0]
    /\ buf[<< area.x + 1, area.y + 1 >>] = Cell("A", mismatch_color(65), MATCH_COLOR)
    /\ buf[<< area.x + 3, area.y + 1 >>] = Cell(">", MATCH_FG_COLOR, MATCH_COLOR)

(***************************************************************************)
(* C14. A Mismatch(position, base) modifier of a visible context whose     *)
(* position is on-screen and whose base has a glyph puts one cell at that  *)
(* position holding the base's glyph in the mismatch colour of the base;   *)
(* with a modification map its background is the colour of the position's  *)
(* chosen call, or the default aligned background when the position has no *)
(* call, and without a map it is the background of the context's first     *)
(* base cell.                                                              *)
(***************************************************************************)
C14_MismatchKeepsBackground ==
    [][ (Stepping /\ Visible(Current) /\ ~BadGlyphOnScreen(Current)) =>
        LET i    == Current
            c    == i.context
            out  == Rendered(i).output
            on   == Anchored(c)
            b    == Len(out) - Len(on)
        IN  \A k \in 1..Len(on) :
               LET m == c.modifiers[on[k]] IN
               m.m = "Mismatch" =>
                  /\ out[b + k].x = ColumnOf(m.pos).n
                  /\ out[b + k].string = << ByteGlyph(m.base) >>
                  /\ out[b + k].style.fg = mismatch_color(m.base)
                  /\ out[b + k].style.bg =
                        (IF i.mods.some
                         THEN (IF m.pos \in DOMAIN i.mods.map
                               THEN ChosenColor(i.mods.map[m.pos]) ELSE MATCH_COLOR)
                         ELSE out[1].style.bg)
                  /\ (\A q \in (k + 1)..Len(on) : out[b + q].x # out[b + k].x) =>
                        buf'[CellAt(i, ColumnOf(m.pos).n)] =
                           Cell(ByteGlyph(m.base), out[b + k].style.fg, out[b + k].style.bg) ]_vars

\* A mismatch on a position with a 5mC call kept that call's background, and a
\* mismatch on a position without a call took the default aligned background.
C14_Witness ==
    /\ rpc = "done"
    /\ rret = "Ok"
    /\ ~display_as_pairs
    /\ show_modifications
    /\ alignment_view.left = 9
    /\ \/ /\ reads[2] = ModifiedRead
          /\ ys_index = << << 0 >>, << 1 >> >>
          /\ alignment_view.top = 0
          /\ buf[<< area.x + 2, area.y + 1 >>] =
                Cell("T", mismatch_color(84), modification_color("FiveMC", 200))
       \/ /\ reads[2] = OverlayRead
          /\ alignment_view.top = 1
          /\ buf[<< area.x + 1, area.y >>] = Cell("A", mismatch_color(65), MATCH_COLOR)

(***************************************************************************)
(* C15. When the byte of a visible SoftClip context, or of a Mismatch      *)
(* modifier anchored on-screen in a visible context, has no glyph, the     *)
(* invocation fails, nothing of it is written and render_alignment returns *)
(* the glyph error; when every such byte of the invocation is off-screen   *)
(* the invocation succeeds, the pass goes on, and no cell is written for   *)
(* the byte.                                                               *)
(***************************************************************************)
HasBadByte(i) ==
    \/ i.context.kind = "SoftClip" /\ i.context.base >= AsciiLimit
    \/ \E j \in 1..Len(i.context.modifiers) :
          i.context.modifiers[j].m = "Mismatch" /\ i.context.modifiers[j].base >= AsciiLimit

C15_BadGlyphIsAnError ==
    [][ Stepping =>
        /\ BadGlyphOnScreen(Current) =>
              /\ rpc' = "done"
              /\ rret' = "GlyphError"
              /\ buf' = buf
        /\ (HasBadByte(Current) /\ ~BadGlyphOnScreen(Current)) =>
              /\ rpc' = "drawing"
              /\ rret' = rret
              /\ queue' = Tail(queue)
              /\ ~Visible(Current) => buf' = buf
              /\ Visible(Current) =>
                    /\ Len(Rendered(Current).output) =
                          Len(BaseCells(Current)) + Cardinality(AnchoredSet(Current.context))
                    /\ \A c \in DOMAIN buf :
                          buf'[c] # buf[c] =>
                             \E k \in 1..Len(Rendered(Current).output) :
                                LET o == Rendered(Current).output[k] IN
                                /\ c[2] = area.y + o.y
                                /\ c[1] >= area.x + o.x
                                /\ c[1] < area.x + o.x + Len(o.string) ]_vars

\* A pass ended with the glyph error on a mismatch byte after drawing the
\* contexts before it.
C15_Witness ==
    /\ rpc = "done"
    /\ rret = "GlyphError"
    /\ Len(invocations) >= 2
    /\ HasBadByte(invocations[Len(invocations)])
    /\ invocations[Len(invocations)].context.kind = "Match"
    /\ buf # BlankBuffer(area)

\* A mismatch byte without a glyph stayed right of the screen while its
\* context was drawn, and the pass ended Ok.
C15_WitnessOffScreen ==
    /\ rpc = "done"
    /\ rret = "Ok"
    /\ \E k \in 1..Len(invocations) :
          /\ HasBadByte(invocations[k])
          /\ Visible(invocations[k])
          /\ invocations[k].context.kind = "Match"

(***************************************************************************)
(* C16. A visible SoftClip context whose base has a glyph gives exactly    *)
(* one base cell, one glyph wide, holding the clipped base on the          *)
(* background keyed by that base, however far apart its start and end are; *)
(* without modifiers no other cell of the buffer changes.                  *)
(***************************************************************************)
C16_SoftClipIsOneCell ==
    [][ (Stepping /\ Current.context.kind = "SoftClip" /\ Visible(Current)
           /\ ~BadGlyphOnScreen(Current)) =>
        LET i    == Current
            base == BaseCells(i)
            x    == ColumnOf(VisiblePositions(i.context)[1]).n
        IN  /\ Len(base) = 1
            /\ base[1].string = << ByteGlyph(i.context.base) >>
            /\ base[1].x = x
            /\ base[1].style.bg = softclip_color(i.context.base)
            /\ i.context.modifiers = << >> =>
                  /\ buf'[CellAt(i, x)].symbol = ByteGlyph(i.context.base)
                  /\ buf'[CellAt(i, x)].bg = softclip_color(i.context.base)
                  /\ \A c \in DOMAIN buf : c # CellAt(i, x) => buf'[c] = buf[c] ]_vars

\* Scenario E: a clip over 13..=16, all of it on-screen, was drawn as the one
\* cell of 13.
C16_Witness ==
    /\ rpc = "done"
    /\ rret = "Ok"
    /\ ~display_as_pairs
    /\ reads[1] = ScenarioDRead
    /\ alignment_view = [left |-> 11, top |-> 0]
    /\ buf[<< area.x + 2, area.y >>].symbol = "G"
    /\ buf[<< area.x + 2, area.y >>].bg = softclip_color(71)
    /\ \A x \in 3..5 : buf[<< area.x + x, area.y >>] = BlankCell

(***************************************************************************)
(* C17. Once a pass over an area of at least one line has returned Ok, the *)
(* compositor has been invoked exactly once for each rendering context: in *)
(* individual mode for every context of every read of every row of the row *)
(* assignment, with the row's index as row; in paired mode for every       *)
(* context of every pair whose visibility flag is true, at the row of the  *)
(* pair's first read. At no time has it been invoked more often than that, *)
(* and never for a pair whose flag is false.                               *)
(***************************************************************************)
\* How often the pass has invoked the compositor with context c on row y for
\* read r.
TimesInvoked(c, y, r) ==
    Cardinality({ k \in 1..Len(invocations) :
                     /\ invocations[k].context = c
                     /\ invocations[k].y = y
                     /\ invocations[k].read = r })

\* How often the row assignment lists context c on row y for read r.
TimesListed(c, y, r) ==
    IF y + 1 \notin 1..Len(ys_index) THEN 0
    ELSE Cardinality({ jk \in (1..Len(ys_index[y + 1])) \X (1..Len(reads[r + 1].rendering_contexts)) :
                          /\ ys_index[y + 1][jk[1]] = r
                          /\ reads[r + 1].rendering_contexts[jk[2]] = c })

\* How often the visible pairs hold context c on row y for first read r.
TimesPaired(c, y, r) ==
    Cardinality(UNION {
        { << p, k >> : k \in { k \in 1..Len(read_pairs.list[p].rendering_contexts) :
                                 read_pairs.list[p].rendering_contexts[k] = c } } :
        p \in { p \in 1..Len(read_pairs.list) :
                  /\ p <= Len(show_pairs.list)
                  /\ show_pairs.list[p]
                  /\ read_pairs.list[p].read_1_index = r
                  /\ ys[r + 1] = y } })

AllContexts ==
    UNION { { reads[r].rendering_contexts[k] : k \in 1..Len(reads[r].rendering_contexts) } :
              r \in 1..Len(reads) }
    \cup UNION { { read_pairs.list[p].rendering_contexts[k] :
                     k \in 1..Len(read_pairs.list[p].rendering_contexts) } :
                   p \in 1..Len(read_pairs.list) }

Expected(c, y, r) ==
    IF display_as_pairs THEN TimesPaired(c, y, r) ELSE TimesListed(c, y, r)

C17_OncePerContextOfVisibleRow ==
    rpc \in {"drawing", "done"} =>
       \A c \in AllContexts, y \in 0..Len(reads), r \in 0..(Len(reads) - 1) :
          /\ TimesInvoked(c, y, r) <= Expected(c, y, r)
          /\ (rpc = "done" /\ rret = "Ok" /\ area.height >= 1) =>
                TimesInvoked(c, y, r) = Expected(c, y, r)
          /\ Len(invocations) > 0 => area.height >= 1

\* A paired pass with the first pair hidden ended Ok after the three contexts
\* of the second pair, all on the row of that pair's first read.
C17_Witness ==
    /\ rpc = "done"
    /\ rret = "Ok"
    /\ display_as_pairs
    /\ show_pairs = SomeList(<< FALSE, TRUE >>)
    /\ Len(invocations) = 3
    /\ \A k \in 1..3 : invocations[k].context = PairB[k] /\ invocations[k].y = ys[2]
    /\ ys[2] # ys[1]

(***************************************************************************)
(* C18. Once parse has returned: a line that is the word "paired", in any  *)
(* letter case and with whitespace around it, gave exactly the one message *)
(* SetAlignmentOption([ViewAsPairs]); a line that is the word "mod" or the *)
(* word "modifications" gave exactly the one message                       *)
(* SetAlignmentOption([ShowBaseModifications]).                            *)
(***************************************************************************)
\* The word a command line consists of, in lowercase.
WordOf(line) == to_ascii_lowercase(TrimLine(line))

C18_OptionKeywords ==
    parsed # Pending =>
       /\ WordOf(input) = << "p", "a", "i", "r", "e", "d" >> =>
             parsed = Ok(<< SetAlignmentOption(<< ViewAsPairs >>) >>)
       /\ WordOf(input) \in { << "m", "o", "d" >>, << "m", "o", "d", "i", "f", "i", "c", "a", "t", "i", "o", "n", "s" >> } =>
             parsed = Ok(<< SetAlignmentOption(<< ShowBaseModifications >>) >>)

(***************************************************************************)
(* C19. Once buffer_to_html has returned, its body holds, row by row, one  *)
(* span for each cell of the buffer and a line end after each row; the     *)
(* text of a span is the cell's symbol with '&', '<', '>', '"' and space   *)
(* replaced by &amp; &lt; &gt; &quot; &nbsp;, so that no '<', '>', '"' or  *)
(* space is left in it and every '&' opens one of those entities.          *)
(***************************************************************************)
Entity(ch) ==
    CASE ch = "&" -> << "&", "a", "m", "p", ";" >>
      [] ch = "<" -> << "&", "l", "t", ";" >>
      [] ch = ">" -> << "&", "g", "t", ";" >>
      [] ch = "\"" -> << "&", "q", "u", "o", "t", ";" >>
      [] ch = " " -> << "&", "n", "b", "s", "p", ";" >>
      [] OTHER -> << ch >>

Entities == { << "&", "a", "m", "p", ";" >>, << "&", "l", "t", ";" >>, << "&", "g", "t", ";" >>, << "&", "q", "u", "o", "t", ";" >>, << "&", "n", "b", "s", "p", ";" >> }

\* No markup character is left in the text of a span.
SafeText(text) ==
    \A k \in 1..Len(text) :
       /\ text[k] \notin { "<", ">", "\"", " " }
       /\ text[k] = "&" =>
             \E e \in Entities :
                /\ k + Len(e) - 1 <= Len(text)
                /\ SubSeq(text, k, k + Len(e) - 1) = e

\* The tag and text of every piece the body should hold.
ExpectedBody ==
    Flatten([ r \in 1..snapshot.area.height |->
                [ c \in 1..snapshot.area.width |->
                    << "span",
                       Entity(snapshot.content[<< snapshot.area.x + c - 1,
                                                  snapshot.area.y + r - 1 >>].symbol) >> ]
                \o << << "newline", << >> >> >> ])

C19_OneSpanPerCellEscaped ==
    /\ \A k \in 1..Len(body) : SafeText(body[k].text)
    /\ epc = "done" =>
          /\ Len(body) = Len(ExpectedBody)
          /\ \A k \in 1..Len(body) : << body[k].tag, body[k].text >> = ExpectedBody[k]

(***************************************************************************)
(* C20. For every index 0..=255 indexed_to_rgb returns without an 8-bit    *)
(* overflow: indices 0-15 give the colours of the 16 named ANSI colours;   *)
(* for 16-231, with n = idx - 16, the components are the levels of n / 36, *)
(* (n / 6) mod 6 and n mod 6, level v being 0 for v = 0 and 55 + 40 v      *)
(* otherwise, at most 255; for 232-255 all three components are            *)
(* 8 + 10 (idx - 232), at most 238.                                        *)
(***************************************************************************)
Level(v) == IF v = 0 THEN 0 ELSE 55 + 40 * v

C20_IndexedToRgb ==
    rgb # NoRgb =>
       /\ ~rgb.overflow
       /\ idx \in 0..15 =>
             HexColor(rgb.r, rgb.g, rgb.b) = color_to_css(NamedColor(NamedColors[idx + 1]))
       /\ idx \in 16..231 =>
             /\ rgb.r = Level((idx - 16) \div 36)
             /\ rgb.g = Level(((idx - 16) \div 6) % 6)
             /\ rgb.b = Level((idx - 16) % 6)
             /\ rgb.r <= 255 /\ rgb.g <= 255 /\ rgb.b <= 255
       /\ idx \in 232..255 =>
             /\ rgb.r = 8 + 10 * (idx - 232)
             /\ rgb.g = rgb.r
             /\ rgb.b = rgb.r
             /\ rgb.r <= 238

\* The last colour of the cube, whose three levels are the highest, resolved
\* to white.
C20_Witness ==
    /\ idx = 231
    /\ rgb = Rgb(255, 255, 255, FALSE)

(***************************************************************************)
(* C21. A decodable section (strand '+', recognized code, numeric tokens)   *)
(* whose base letter does not occur in the read makes no call and adds no  *)
(* entry, and the step over it advances the probability-byte cursor by one *)
(* for each of its delta tokens, so that the next section reads its        *)
(* probabilities after those bytes.                                        *)
(***************************************************************************)
\* Every delta token of the section is a number.
AllNumeric(raw) ==
    \A t \in 1..NumDeltaTokens(raw) : DeltaValue(raw, t) # ParseErr

IsDecodableSection(raw) ==
    /\ HasHeader(raw)
    /\ HeaderOf(Trim(raw))[2] = "+"
    /\ HeaderOf(Trim(raw))[3] \in {"m", "h", "a"}

BaseOccurs(raw) ==
    \E i \in 1..Len(seq) :
        ToAsciiUppercase(seq[i]) = ToAsciiUppercase(HeaderOf(Trim(raw))[1])

IsAbsentBaseSection(raw) ==
    IsDecodableSection(raw) /\ AllNumeric(raw) /\ ~BaseOccurs(raw)

C21_AbsentBaseTokensConsumeBytes ==
    [][ (InSectionLoop /\ IsAbsentBaseSection(CurrentSection)) =>
          /\ calls' = calls
          /\ result' = result
          /\ (sec_i' = sec_i + 1 =>
                ml_cursor' = TokensBefore(sec_i + 1) - TokensBefore(sec_i) + ml_cursor) ]_vars

(***************************************************************************)
(* C22. Every step that makes a call reads the probability byte at the     *)
(* cursor: the call's probability is that byte when the cursor lies inside *)
(* the byte sequence and 255 when it is at or past its end, and in both    *)
(* cases the step advances the cursor by one.                              *)
(***************************************************************************)
C22_ProbabilityByteOrDefault ==
    [][ Len(calls') = Len(calls) + 1 =>
          LET call == calls'[Len(calls')] IN
          /\ call.ml_index = ml_cursor
          /\ ml_cursor < Len(ml_bytes) => call.probability = ml_bytes[ml_cursor + 1]
          /\ ml_cursor >= Len(ml_bytes) => call.probability = 255
          /\ ml_cursor' = ml_cursor + 1
          /\ \A pos \in DOMAIN result' :
                Len(result'[pos]) > (IF pos \in DOMAIN result THEN Len(result[pos]) ELSE 0)
                   => result'[pos][Len(result'[pos])].probability = call.probability ]_vars

\* Three calls on two probability bytes: the first two got the bytes 200 and
\* 50, the third, past the end, got 255.
C22_Witness ==
    /\ ml_bytes = << 200, 50 >>
    /\ Len(calls) = 3
    /\ calls[1].probability = 200
    /\ calls[2].probability = 50
    /\ calls[3].ml_index = 2
    /\ calls[3].probability = 255
    /\ \E pos \in DOMAIN result : \E e \in 1..Len(result[pos]) :
          result[pos][e].probability = 255

(***************************************************************************)
(* C24. Within one delta loop the position cursor never decreases; once it *)
(* is at or past the end of the base's offset list no later token of the   *)
(* section makes a call or adds an entry; the calls of a section come from *)
(* its first tokens, one after the other, and target strictly increasing   *)
(* occurrences and query offsets.                                          *)
(***************************************************************************)
C24_CursorMonotoneInSection ==
    /\ [][ (pc = "delta" /\ pc' = "delta") => pos_cursor' >= pos_cursor ]_vars
    /\ [][ (pc = "delta" /\ pos_cursor >= Len(positions))
              => (calls' = calls /\ result' = result) ]_vars
    /\ [](\A k \in 1..Len(calls) :
            /\ calls[k].token = CallRank(k)
            /\ \A j \in 1..(k - 1) :
                  calls[j].section = calls[k].section =>
                     /\ calls[j].index < calls[k].index
                     /\ calls[j].query_pos < calls[k].query_pos)

(***************************************************************************)
(* C23. A compositor invocation changes only cells of the screen line the  *)
(* view transform gives its row, and none when the row is off-screen; rows *)
(* that are on-screen have distinct lines; so when a pass has drawn every  *)
(* context and returned Ok, drawing the same contexts in any interleaving  *)
(* of the rows that keeps the order inside each row gives the buffer the   *)
(* pass ended with.                                                        *)
(***************************************************************************)
\* The buffer after one compositor invocation on buffer b.
Draw(b, i) == render_contexts(i.context, i.y, b, alignment_view, area, i.mods).buf

RECURSIVE Replay(_, _)
Replay(b, is) == IF Len(is) = 0 THEN b ELSE Replay(Draw(b, Head(is)), Tail(is))

RowOnScreen(y) == onscreen_y_coordinate(alignment_view, y, area).t = "OnScreen"

\* The rows of the pass and the invocations of one row, in the pass's order.
RowsDrawn == { invocations[k].y : k \in 1..Len(invocations) }
RowSeq(y) == SelectSeq(invocations, LAMBDA i : i.y = y)

\* The buffers that drawing the first taken[y] invocations of every row y can
\* end with, over all interleavings of the rows.
RECURSIVE BuffersOfOrders(_)
BuffersOfOrders(taken) ==
    LET rows == { y \in DOMAIN taken : taken[y] > 0 } IN
    IF rows = {} THEN { BlankBuffer(area) }
    ELSE UNION { { Draw(b, RowSeq(y)[taken[y]]) :
                     b \in BuffersOfOrders([taken EXCEPT ![y] = @ - 1]) } : y \in rows }

\* The invocations with the k-th and the l-th exchanged.
Exchanged(is, k, l) ==
    [ j \in 1..Len(is) |-> IF j = k THEN is[l] ELSE IF j = l THEN is[k] ELSE is[j] ]

C23_RowsAreIndependent ==
    /\ [][ Stepping =>
             \A c \in DOMAIN buf :
                buf'[c] # buf[c] =>
                   /\ RowOnScreen(Current.y)
                   /\ c[2] = area.y + ScreenRow(Current) ]_vars
    /\ []((rpc = "done" /\ rret = "Ok") =>
            /\ \A y1, y2 \in RowsDrawn :
                  (y1 # y2 /\ RowOnScreen(y1) /\ RowOnScreen(y2)) =>
                     onscreen_y_coordinate(alignment_view, y1, area).n
                        # onscreen_y_coordinate(alignment_view, y2, area).n
            /\ BuffersOfOrders([y \in RowsDrawn |-> Len(RowSeq(y))]) = { buf })

\* A pass drew two reads on one line and a third on the line below; the
\* rows can be interleaved, and exchanging two contexts of the shared row
\* would have given another buffer.
C23_Witness ==
    /\ rpc = "done"
    /\ rret = "Ok"
    /\ Cardinality({ y \in RowsDrawn : RowOnScreen(y) }) = 2
    /\ \A y \in RowsDrawn :
          \E c \in DOMAIN buf : c[2] = area.y + y - alignment_view.top /\ buf[c] # BlankCell
    /\ \E k, l \in 1..Len(invocations) :
          /\ k < l
          /\ invocations[k].y = invocations[l].y
          /\ Replay(BlankBuffer(area), Exchanged(invocations, k, l)) # buf

(***************************************************************************)
(* C25. When a visible context whose base glyphs were computed holds a     *)
(* Forward, Reverse or PairConflict modifier, or a Mismatch modifier drawn *)
(* without a modification map, anchored on the screen, its list of base    *)
(* glyphs is non-empty, so taking the first base cell's style does not     *)
(* abort: the invocation does not panic. A Match context drawn cell by     *)
(* cell with a map has one base cell per on-screen position, at least one. *)
(***************************************************************************)
\* The base glyphs of an invocation, before its modifiers.
BaseOf(i) ==
    BaseGlyphs(i.context, ScreenRow(i),
               onscreen_start_and_length(ColumnOf(i.context.start),
                                         ColumnOf(i.context.end), area),
               alignment_view, area, i.mods)

\* The modifier takes the style of the first base cell.
TakesFirstStyle(i, m) ==
    \/ m.m \in {"Forward", "Reverse", "PairConflict"}
    \/ m.m = "Mismatch" /\ ~i.mods.some

C25_FirstBaseCellExists ==
    [][ (Stepping /\ Visible(Current) /\ BaseOf(Current).tag = "Some") =>
          LET i == Current IN
          /\ (\E j \in AnchoredSet(i.context) : TakesFirstStyle(i, i.context.modifiers[j]))
                => Len(BaseOf(i).output) >= 1
          /\ (i.context.kind = "Match" /\ i.mods.some) =>
                /\ Len(BaseOf(i).output) = Cardinality(VisibleSet(i.context))
                /\ Len(BaseOf(i).output) >= 1
          /\ Rendered(i).tag # "Panic"
          /\ rret' # "panic" ]_vars

\* A Match context whose start is left of the screen was drawn cell by cell
\* with a map: its arrow at the end took the style of the first cell drawn,
\* the one of position 11.
C25_Witness ==
    /\ rpc = "drawing"
    /\ rret = "running"
    /\ alignment_view.left = 11
    /\ Len(invocations) >= 1
    /\ LET i == invocations[Len(invocations)] IN
          /\ i.context = OverlayRead.rendering_contexts[1]
          /\ i.mods.some
          /\ RowOnScreen(i.y)
          /\ buf[CellAt(i, 1)] = Cell(">", MATCH_FG_COLOR, modification_color("SixMA", 255))

(***************************************************************************)
(* C26. A compositor step whose context fails with a glyph error leaves    *)
(* the buffer as it was and ends the pass with that error; from then on    *)
(* nothing is drawn: the buffer holds exactly the cells of the contexts    *)
(* drawn before the failing one, and the contexts after it stay undrawn.   *)
(***************************************************************************)
\* All but the last element.
Front(is) == SubSeq(is, 1, Len(is) - 1)

C26_GlyphErrorWritesNothing ==
    /\ [][ (Stepping /\ Rendered(Current).tag = "Err") =>
             /\ buf' = buf
             /\ rpc' = "done"
             /\ rret' = "GlyphError"
             /\ queue' = queue
             /\ invocations' = Append(invocations, Current) ]_vars
    /\ [][ rret = "GlyphError" => UNCHANGED << buf, queue, invocations, rpc, rret >> ]_vars
    /\ [](rret = "GlyphError" =>
            /\ rpc = "done"
            /\ Len(queue) >= 1
            /\ invocations[Len(invocations)] = Head(queue)
            /\ Rendered(Head(queue)).tag = "Err"
            /\ \A k \in 1..(Len(invocations) - 1) : Rendered(invocations[k]).tag # "Err"
            /\ buf = Replay(BlankBuffer(area), Front(invocations)))

\* A pass failed on the soft clip of the read on the second line: the cells
\* of the read above and of the match before the clip are in the buffer, the
\* match after the clip is not, and six contexts were left undrawn.
C26_Witness ==
    /\ rpc = "done"
    /\ rret = "GlyphError"
    /\ ~display_as_pairs
    /\ alignment_view = [left |-> 9, top |-> 0]
    /\ ys_index = << << 2 >>, << 0 >>, << 1 >> >>
    /\ Head(queue).context = BadClipRead.rendering_contexts[2]
    /\ Len(queue) = 6
    /\ buf[<< area.x + 3, area.y >>].symbol = "-"
    /\ buf[<< area.x + 1, area.y + 1 >>].symbol = "-"
    /\ buf[<< area.x + 4, area.y + 1 >>] = BlankCell
    /\ buf[<< area.x + 5, area.y + 1 >>] = BlankCell

====
